---- MODULE Spec2Model ----
(***************************************************************************)
(* Model of the MCP store (backend/mcp_store.py) and of the question       *)
(* workflow that drives it (backend/summarizer.py).                        *)
(*                                                                         *)
(* Strings are sequences of one-character strings, so that lower(),        *)
(* strip(), split() and the substring test `in` are computed as Python     *)
(* computes them.  An element of more than one character stands for a run  *)
(* of characters that no operation looks inside: a URL, or filler text     *)
(* without capitals, white space, markup or any word of a question.        *)
(* Time is counted in half days: a timestamp is the number of half days    *)
(* since the store was created.                                            *)
(***************************************************************************)
EXTENDS Integers, Sequences, FiniteSets, TLC

\* ------------------------------------------------------------------------
\* Bounds of the model
\* ------------------------------------------------------------------------

\* the clock stops at this instant (half days): 31 days
MaxNow == 62

\* ------------------------------------------------------------------------
\* Program constants
\* ------------------------------------------------------------------------

\* half days in a day (the resolution of the model's clock)
UnitsPerDay == 2

\* seconds in one clock unit
SecondsPerUnit == 43200

\* default of expiry_days in MCPStore.__init__
DefaultExpiryDays == 30

\* the literal 15 in get_topic_metadata ("needs_refresh": age_days > 15)
RefreshThresholdDays == 15

\* default of max_age_days in needs_refresh
DefaultMaxAgeDays == 15

\* the store instances (process starts) a run goes through
MaxInstances == 2

\* _fetch_web_content keeps a page only if len(content) > 50
MinContentLen == 50

\* query_mcp returns relevant_docs[:5]
TopK == 5

\* ------------------------------------------------------------------------
\* Python string operations
\* ------------------------------------------------------------------------

UpperChars == <<"A","B","C","D","E","F","G","H","I","J","K","L","M",
                "N","O","P","Q","R","S","T","U","V","W","X","Y","Z">>

LowerChars == <<"a","b","c","d","e","f","g","h","i","j","k","l","m",
                "n","o","p","q","r","s","t","u","v","w","x","y","z">>

Whitespace == {" ", "\t", "\n", "\r"}

UpperSet == {UpperChars[i] : i \in 1..Len(UpperChars)}

LowerOf == [c \in UpperSet |->
               LowerChars[CHOOSE i \in 1..Len(UpperChars) : UpperChars[i] = c]]

LowerChar(c) == IF c \in UpperSet THEN LowerOf[c] ELSE c

\* str.lower(), character by character
RECURSIVE LowerRec(_)
LowerRec(s) == IF s = <<>> THEN <<>> ELSE <<LowerChar(Head(s))>> \o LowerRec(Tail(s))

\* len(s): the number of characters of the elements of s
RECURSIVE CharLen(_)
CharLen(s) == IF s = <<>> THEN 0 ELSE Len(Head(s)) + CharLen(Tail(s))

RECURSIVE LStrip(_)
LStrip(s) ==
    IF s = <<>> THEN <<>>
    ELSE IF Head(s) \in Whitespace THEN LStrip(Tail(s)) ELSE s

RECURSIVE RStrip(_)
RStrip(s) ==
    IF s = <<>> THEN <<>>
    ELSE IF s[Len(s)] \in Whitespace THEN RStrip(SubSeq(s, 1, Len(s) - 1)) ELSE s

\* str.strip()
Strip(s) == RStrip(LStrip(s))

\* needle in hay (substring test; the empty string is in every string)
Contains(hay, needle) ==
    \E i \in 1..(Len(hay) - Len(needle) + 1) :
        SubSeq(hay, i, i + Len(needle) - 1) = needle

\* str.split(): the maximal runs of non-whitespace characters, in order
RECURSIVE SplitFrom(_, _, _)
SplitFrom(s, i, cur) ==
    IF i > Len(s)
    THEN IF cur = <<>> THEN <<>> ELSE <<cur>>
    ELSE IF s[i] \in Whitespace
         THEN (IF cur = <<>> THEN <<>> ELSE <<cur>>) \o SplitFrom(s, i + 1, <<>>)
         ELSE SplitFrom(s, i + 1, Append(cur, s[i]))

SplitRec(s) == SplitFrom(s, 1, <<>>)

\* ' '.join(words)
RECURSIVE JoinSpace(_)
JoinSpace(words) ==
    IF words = <<>> THEN <<>>
    ELSE IF Len(words) = 1 THEN words[1]
    ELSE words[1] \o <<" ">> \o JoinSpace(Tail(words))

\* str.replace(c, rep) for a one-character c
RECURSIVE ReplaceChar(_, _, _)
ReplaceChar(s, c, rep) ==
    IF s = <<>> THEN <<>>
    ELSE (IF Head(s) = c THEN rep ELSE <<Head(s)>>) \o ReplaceChar(Tail(s), c, rep)

\* MCPStore._clean_html_content, step by step
CleanRec(content) ==
    LET c1 == ReplaceChar(ReplaceChar(content, "\n", <<" ">>), "\r", <<" ">>)
        c2 == JoinSpace(SplitRec(c1))
        c3 == ReplaceChar(ReplaceChar(c2, "<", <<" ", "<">>), ">", <<">", " ">>)
        c4 == JoinSpace(SplitRec(c3))
    IN  Strip(c4)

\* ------------------------------------------------------------------------
\* The strings of the model, and the string operations tabulated over them
\* (a table holds the value the operation computes; it is there so that
\* the value is computed once)
\* ------------------------------------------------------------------------

Ros == <<"r","o","s">>

RosUrl1 == <<"https://docs.ros.org/">>

RosUrl2 == <<"https://wiki.ros.org/">>

Slam == <<"S","L","A","M">>

UrlX == <<"http://x">>

\* 46 characters of text that match no question
Filler == <<"xxxxxxxxxxxxxxxxxxxxxxxxxxxxxxxxxxxxxxxxxxxxxx">>

\* a page about ROS, with markup and line breaks: 54 characters when cleaned
PageRel == <<"<","p",">","R","O","S","\n"," "," ">> \o Filler

\* a page that mentions no word of any question: 51 characters when cleaned
PageOther == <<"<","b",">","\r","-">> \o Filler

\* a page whose cleaned text has 50 characters: too short to keep
PageShort == <<" ","r","o","s","\n">> \o Filler

\* the questions asked: a table topic alone, and one with an academic keyword
Questions ==
    {<<"R","O","S">>,
     <<"r","o","s"," ","s","l","a","m">>}

Pages == {PageRel, PageOther, PageShort}

\* the content of the documents passed to cache_content and found on arXiv
DocContents ==
    {<<"s","l","a","m"," ","a">>, <<"s","l","a","m"," ","b">>, <<"s","l","a","m"," ","c">>,
     <<"T","i","t","l","e",":"," ","S","L","A","M">>}

CleanTable == [p \in Pages |-> CleanRec(p)]

\* MCPStore._clean_html_content
CleanHtmlContent(content) ==
    IF content \in Pages THEN CleanTable[content] ELSE CleanRec(content)

\* the strings lower() is applied to
KnownStrings ==
    Questions \cup {Ros, Slam} \cup DocContents \cup {CleanRec(p) : p \in Pages}

LowerTable == [s \in KnownStrings |-> LowerRec(s)]

\* str.lower()
Lower(s) == IF s \in KnownStrings THEN LowerTable[s] ELSE LowerRec(s)

\* the strings split() is applied to
KnownQueries == Questions \cup {LowerRec(q) : q \in Questions}

SplitTable == [s \in KnownQueries |-> SplitRec(s)]

\* str.split()
Split(s) == IF s \in KnownQueries THEN SplitTable[s] ELSE SplitRec(s)

\* ------------------------------------------------------------------------
\* Cache key derivation
\* ------------------------------------------------------------------------

\* hashlib.md5(...).hexdigest(): the digest is modelled as an injective tag
\* of its input (collisions of MD5 itself are outside the model)
Md5(content) == <<"md5", content>>

\* the key as it would be if the topic were lowered and not stripped
KeyRec_LowerOnly(topic, source_url) ==
    Md5(LowerRec(topic) \o <<"_">> \o source_url)

\* the key of (topic, source_url), computed from the strings
KeyRec(topic, source_url) ==
    Md5(Strip(LowerRec(topic)) \o <<"_">> \o source_url)

\* the (topic, source_url) pairs the model derives keys for
KnownPairs ==
    ({Ros, Slam} \cup Questions) \X {<<>>, RosUrl1, RosUrl2, UrlX}

KeyTable == [p \in KnownPairs |-> KeyRec(p[1], p[2])]

\* MCPStore._generate_cache_key
GenerateCacheKey(topic, source_url) ==
    IF <<topic, source_url>> \in KnownPairs
    THEN KeyTable[<<topic, source_url>>]
    ELSE KeyRec(topic, source_url)

\* ------------------------------------------------------------------------
\* The static topic table and topic matching
\* ------------------------------------------------------------------------

\* MCPStore.get_documentation_sources (a dict: iteration is in this order)
DocumentationSources == <<
    [topic |-> <<"n","u","m","p","y">>,
     urls |-> << <<"https://numpy.org/doc/stable/reference/">>,
               <<"https://numpy.org/doc/stable/user/">>,
               <<"https://numpy.org/doc/stable/contents.html">> >>],
    [topic |-> <<"p","a","n","d","a","s">>,
     urls |-> << <<"https://pandas.pydata.org/docs/">>,
               <<"https://pandas.pydata.org/docs/reference/">> >>],
    [topic |-> <<"m","a","t","p","l","o","t","l","i","b">>,
     urls |-> << <<"https://matplotlib.org/stable/">>,
               <<"https://matplotlib.org/stable/tutorials/">> >>],
    [topic |-> <<"s","c","i","k","i","t","-","l","e","a","r","n">>,
     urls |-> << <<"https://scikit-learn.org/stable/">>,
               <<"https://scikit-learn.org/stable/modules/">> >>],
    [topic |-> <<"o","p","e","n","c","v">>,
     urls |-> << <<"https://docs.opencv.org/">>,
               <<"https://docs.opencv.org/master/">> >>],
    [topic |-> <<"r","o","s">>,
     urls |-> << <<"https://docs.ros.org/">>,
               <<"https://wiki.ros.org/">> >>],
    [topic |-> <<"t","e","n","s","o","r","f","l","o","w">>,
     urls |-> << <<"https://www.tensorflow.org/guide">>,
               <<"https://www.tensorflow.org/tutorials">> >>],
    [topic |-> <<"p","y","t","o","r","c","h">>,
     urls |-> << <<"https://pytorch.org/docs/">>,
               <<"https://pytorch.org/tutorials/">> >>] >>

\* the (topic, url) pairs of one table row, in order
SourcesOfRow(row) == [j \in 1..Len(row.urls) |-> <<row.topic, row.urls[j]>>]

\* the sources of one row, if its topic is in the query
RowSources(query_lower, row) ==
    IF Contains(query_lower, row.topic) THEN SourcesOfRow(row) ELSE <<>>

\* the loop of find_relevant_docs over the rows of the table
RECURSIVE RelevantFrom(_, _, _)
RelevantFrom(query_lower, rows, i) ==
    IF i > Len(rows) THEN <<>>
    ELSE RowSources(query_lower, rows[i]) \o RelevantFrom(query_lower, rows, i + 1)

\* the queries find_relevant_docs is applied to
KnownTopics == Questions \cup {Ros, Slam}

RelevantTable ==
    [q \in KnownTopics |-> RelevantFrom(LowerRec(q), DocumentationSources, 1)]

\* MCPStore.find_relevant_docs
FindRelevantDocs(query) ==
    IF query \in KnownTopics
    THEN RelevantTable[query]
    ELSE RelevantFrom(LowerRec(query), DocumentationSources, 1)

\* the academic_keywords list of determine_source_type
AcademicKeywords == <<
    <<"s","l","a","m">>,
    <<"l","o","c","a","l","i","z","a","t","i","o","n">>,
    <<"m","a","p","p","i","n","g">>,
    <<"n","a","v","i","g","a","t","i","o","n">>,
    <<"c","o","n","t","r","o","l">>,
    <<"k","i","n","e","m","a","t","i","c","s">>,
    <<"d","y","n","a","m","i","c","s">>,
    <<"v","i","s","i","o","n">>,
    <<"p","e","r","c","e","p","t","i","o","n">>,
    <<"p","l","a","n","n","i","n","g">>,
    <<"o","p","t","i","m","i","z","a","t","i","o","n">>,
    <<"l","e","a","r","n","i","n","g">>,
    <<"n","e","u","r","a","l">>,
    <<"d","e","e","p">>,
    <<"r","e","i","n","f","o","r","c","e","m","e","n","t">>,
    <<"a","u","t","o","n","o","m","o","u","s">>,
    <<"r","o","b","o","t","i","c">>,
    <<"r","o","b","o","t">> >>

\* the loop of determine_source_type over the keywords
SourceTypeOf(query_lower, keywords) ==
    IF \E i \in 1..Len(keywords) : Contains(query_lower, keywords[i])
    THEN "arxiv"
    ELSE "general"

SourceTypeTable == [q \in Questions |-> SourceTypeOf(LowerRec(q), AcademicKeywords)]

\* determine_source_type as it would be if every question counted as academic
DetermineSourceType_AlwaysArxiv(query) == "arxiv"

\* RoboticsSummarizer.determine_source_type
DetermineSourceType(query) ==
    IF query \in Questions
    THEN SourceTypeTable[query]
    ELSE SourceTypeOf(LowerRec(query), AcademicKeywords)

\* ------------------------------------------------------------------------
\* State
\* ------------------------------------------------------------------------

VARIABLES
    now,          \* datetime.now(), in half days
    expiry_days,  \* self.expiry_days
    metadata,     \* self.metadata: cache key -> entry (the in-memory index)
    disk_meta,    \* the content of mcp_metadata.json
    files,        \* the document files <cache_key>.json: cache key -> batch
    last          \* the operation that ran last: its inputs and what it returned

vars == <<now, expiry_days, metadata, disk_meta, files, last>>

\* the values of expiry_days the store is constructed with
ExpiryChoices == {10, DefaultExpiryDays}

\* the instants at which the clock is read: the start, half a day, 2 days,
\* 16 days and 31 days after it
Instants == {0, 1, 4, 32, MaxNow}

\* dict assignment d[k] = v
DictSet(d, k, v) == [x \in (DOMAIN d) \cup {k} |-> IF x = k THEN v ELSE d[x]]

\* del d[k]
DictDel(d, k) == [x \in (DOMAIN d) \ {k} |-> d[x]]

EmptyDict == [x \in {} |-> 0]

\* ------------------------------------------------------------------------
\* Timestamps and the freshness policy
\* ------------------------------------------------------------------------

\* datetime.isoformat(): the string that stands for the instant t
IsoFormat(t) == <<"iso", t>>

\* datetime.fromisoformat raises on anything that is not such a string
IsIsoString(ts) == Len(ts) = 2 /\ ts[1] = "iso"

\* datetime.fromisoformat
FromIsoFormat(ts) == ts[2]

\* timedelta.days of (datetime.now() - cache_time)
AgeDays(ts) == (now - FromIsoFormat(ts)) \div UnitsPerDay

\* _is_expired as it would be if it compared whole days (timedelta.days)
IsExpired_WholeDays(timestamp) ==
    IF ~IsIsoString(timestamp) THEN TRUE
    ELSE AgeDays(timestamp) > expiry_days

\* MCPStore._is_expired
IsExpired(timestamp) ==
    IF ~IsIsoString(timestamp) THEN TRUE
    ELSE now > FromIsoFormat(timestamp) + expiry_days * UnitsPerDay

\* MCPStore._get_cache_age
GetCacheAge(timestamp) ==
    IF ~IsIsoString(timestamp) THEN [n |-> 0, unit |-> "unknown"]
    ELSE LET age == now - FromIsoFormat(timestamp)
             days == age \div UnitsPerDay
             seconds == (age % UnitsPerDay) * SecondsPerUnit
         IN  IF days > 0 THEN [n |-> days, unit |-> "days ago"]
             ELSE IF seconds > 3600 THEN [n |-> seconds \div 3600, unit |-> "hours ago"]
             ELSE [n |-> seconds \div 60, unit |-> "minutes ago"]

\* ------------------------------------------------------------------------
\* Documents and their JSON form
\* ------------------------------------------------------------------------

\* json.dump(..., default=str) followed by json.load, for one field value:
\* text and numbers come back as they were, any other object as its str()
JsonValue(v) == IF v.kind = "date" THEN [kind |-> "str", text |-> v.text] ELSE v

\* the same for one document
JsonDocument(doc) == [doc EXCEPT !.published = JsonValue(@)]

\* the same for a list of documents
JsonDocuments(docs) == [i \in 1..Len(docs) |-> JsonDocument(docs[i])]

\* ------------------------------------------------------------------------
\* Reading the store
\* ------------------------------------------------------------------------

\* the value Python's None is modelled by
None == [found |-> FALSE]

\* the content of a file that json.load cannot parse
Unparsable == [unparsable |-> TRUE]

\* json.load(f) returns: the file holds a document batch
Parses(file) == file # Unparsable

\* the body of get_cached_content as it would be without the try around the
\* read of the document file: the exception of json.load leaves the method
CachedContentAt_Unguarded(m, f, cache_key) ==
    IF cache_key \notin DOMAIN m THEN None
    ELSE IF IsExpired(m[cache_key].timestamp) THEN None
    ELSE IF cache_key \notin DOMAIN f THEN None
    ELSE IF ~Parses(f[cache_key]) THEN [found |-> FALSE, raised |-> "JSONDecodeError"]
    ELSE [found |-> TRUE,
          documents |-> f[cache_key].documents,
          metadata |-> f[cache_key].metadata,
          source |-> "mcp_cache",
          cache_age |-> GetCacheAge(m[cache_key].timestamp)]

\* the body of get_cached_content once the cache key is derived
CachedContentAt(m, f, cache_key) ==
    IF cache_key \notin DOMAIN m THEN None
    ELSE IF IsExpired(m[cache_key].timestamp) THEN None
    ELSE IF cache_key \notin DOMAIN f THEN None
    ELSE IF ~Parses(f[cache_key]) THEN None
    ELSE [found |-> TRUE,
          documents |-> f[cache_key].documents,
          metadata |-> f[cache_key].metadata,
          source |-> "mcp_cache",
          cache_age |-> GetCacheAge(m[cache_key].timestamp)]

\* MCPStore.get_cached_content, on the index m and the files f
GetCachedContent(m, f, topic, source_url) ==
    CachedContentAt(m, f, GenerateCacheKey(topic, source_url))

\* cache_key in self.metadata and not self._is_expired(entry timestamp)
IsLive(m, cache_key) ==
    cache_key \in DOMAIN m /\ ~IsExpired(m[cache_key].timestamp)

\* the first source of the list whose entry is in the index and not expired
RECURSIVE FirstLive(_, _, _)
FirstLive(m, sources, i) ==
    IF i > Len(sources) THEN 0
    ELSE IF IsLive(m, GenerateCacheKey(sources[i][1], sources[i][2])) THEN i
    ELSE FirstLive(m, sources, i + 1)

\* self.metadata[cache_key] for the i-th source of the list
EntryAt(m, sources, i) == m[GenerateCacheKey(sources[i][1], sources[i][2])]

\* the dict get_topic_metadata returns as it would be if it flagged an entry
\* only once it is older than expiry_days
TopicMetadataOf_FlagsAtExpiry(topic_name, entry) ==
    [cached |-> TRUE,
     topic |-> topic_name,
     source_type |-> entry.source_type,
     last_updated |-> entry.timestamp,
     age_days |-> AgeDays(entry.timestamp),
     document_count |-> entry.document_count,
     needs_refresh |-> AgeDays(entry.timestamp) > expiry_days]

\* the dict get_topic_metadata returns for an unexpired entry
TopicMetadataOf(topic_name, entry) ==
    [cached |-> TRUE,
     topic |-> topic_name,
     source_type |-> entry.source_type,
     last_updated |-> entry.timestamp,
     age_days |-> AgeDays(entry.timestamp),
     document_count |-> entry.document_count,
     needs_refresh |-> AgeDays(entry.timestamp) > RefreshThresholdDays]

\* what get_topic_metadata returns when its loop stops at source i, or runs
\* to the end of the list (i = 0)
TopicMetadataAt(m, sources, i) ==
    IF i = 0 THEN [cached |-> FALSE, needs_refresh |-> TRUE]
    ELSE TopicMetadataOf(sources[i][1], EntryAt(m, sources, i))

\* the loop of get_topic_metadata over relevant_sources
TopicMetadataIn(m, relevant_sources) ==
    TopicMetadataAt(m, relevant_sources, FirstLive(m, relevant_sources, 1))

\* MCPStore.get_topic_metadata
GetTopicMetadata(m, topic) == TopicMetadataIn(m, FindRelevantDocs(topic))

\* the first source of the list whose entry is in the index with a timestamp
RECURSIVE FirstStamped(_, _, _)
FirstStamped(m, sources, i) ==
    IF i > Len(sources) THEN 0
    ELSE IF /\ GenerateCacheKey(sources[i][1], sources[i][2]) \in DOMAIN m
            /\ EntryAt(m, sources, i).timestamp # <<>>
    THEN i
    ELSE FirstStamped(m, sources, i + 1)

\* what needs_refresh returns for an entry with a timestamp
EntryNeedsRefresh(timestamp, max_age_days) ==
    IF ~IsIsoString(timestamp) THEN TRUE
    ELSE AgeDays(timestamp) > max_age_days

\* what needs_refresh returns when its loop stops at source i, or runs to the
\* end of the list (i = 0)
NeedsRefreshAt(m, sources, i, max_age_days) ==
    IF i = 0 THEN TRUE
    ELSE EntryNeedsRefresh(EntryAt(m, sources, i).timestamp, max_age_days)

\* the loop of needs_refresh over relevant_sources
NeedsRefreshIn(m, relevant_sources, max_age_days) ==
    NeedsRefreshAt(m, relevant_sources, FirstStamped(m, relevant_sources, 1), max_age_days)

\* MCPStore.needs_refresh
NeedsRefresh(m, topic, max_age_days) ==
    NeedsRefreshIn(m, FindRelevantDocs(topic), max_age_days)

\* the dict get_source_status returns for an unexpired entry
SourceStatusOf(topic_name, entry) ==
    [cached |-> TRUE,
     topic |-> topic_name,
     cache_age |-> GetCacheAge(entry.timestamp),
     document_count |-> entry.document_count,
     source_type |-> entry.source_type]

\* what get_source_status returns when its loop stops at source i, or runs
\* to the end of the list (i = 0)
SourceStatusAt(m, sources, i) ==
    IF i = 0 THEN [cached |-> FALSE]
    ELSE SourceStatusOf(sources[i][1], EntryAt(m, sources, i))

\* the loop of get_source_status over relevant_sources
SourceStatusIn(m, relevant_sources) ==
    SourceStatusAt(m, relevant_sources, FirstLive(m, relevant_sources, 1))

\* MCPStore.get_source_status
GetSourceStatus(m, topic) == SourceStatusIn(m, FindRelevantDocs(topic))

\* MCPStore.get_cache_stats
GetCacheStats(m) ==
    [total_entries |-> Cardinality(DOMAIN m),
     valid_entries |-> Cardinality({k \in DOMAIN m : ~IsExpired(m[k].timestamp)}),
     expired_entries |-> Cardinality({k \in DOMAIN m : IsExpired(m[k].timestamp)}),
     expiry_days |-> expiry_days]

\* ------------------------------------------------------------------------
\* Writing the store
\* A store state st is the record [metadata, disk_meta, files]; an operation
\* returns the store state it leaves and the value it returns.
\* ------------------------------------------------------------------------

Store == [metadata |-> metadata, disk_meta |-> disk_meta, files |-> files]

\* MCPStore._load_metadata as it would be without the try around json.load:
\* the store is left without an index when the file cannot be parsed
LoadMetadata_Unguarded(file) == file

\* MCPStore._load_metadata: the index read from mcp_metadata.json, and the
\* empty index when the file cannot be parsed (a file that does not exist
\* and a file that holds the empty index load alike)
LoadMetadata(file) == IF Parses(file) THEN file ELSE EmptyDict

\* MCPStore._save_metadata: the index is written to mcp_metadata.json
SaveMetadata(st) == [st EXCEPT !.disk_meta = st.metadata]

\* the cache_entry dict of cache_content
CacheEntry(topic, source_url, source_type, documents, cache_key) ==
    [topic |-> topic,
     source_url |-> source_url,
     source_type |-> source_type,
     timestamp |-> IsoFormat(now),
     document_count |-> Len(documents),
     cache_key |-> cache_key]

\* the writes of cache_content as they would be if the document file were
\* never written
WriteEntry_IndexOnly(st, cache_key, cache_entry, documents) ==
    [st |-> SaveMetadata([st EXCEPT !.metadata = DictSet(@, cache_key, cache_entry)]),
     ret |-> cache_key]

\* the writes of cache_content as they would be if the documents were
\* appended to the batch already in the file
WriteEntry_Appends(st, cache_key, cache_entry, documents) ==
    [st |-> [SaveMetadata([st EXCEPT !.metadata = DictSet(@, cache_key, cache_entry)])
                EXCEPT !.files = DictSet(@, cache_key,
                    [documents |-> (IF cache_key \in DOMAIN @
                                    THEN @[cache_key].documents
                                    ELSE <<>>) \o JsonDocuments(documents),
                     metadata |-> cache_entry])],
     ret |-> cache_key]

\* the writes of cache_content and save_topic_to_mcp: the index entry is set
\* and the index saved, then the document file is written
WriteEntry(st, cache_key, cache_entry, documents) ==
    [st |-> [SaveMetadata([st EXCEPT !.metadata = DictSet(@, cache_key, cache_entry)])
                EXCEPT !.files = DictSet(@, cache_key,
                    [documents |-> JsonDocuments(documents),
                     metadata |-> cache_entry])],
     ret |-> cache_key]

\* the body of cache_content once the cache key is derived
CacheUnder(st, topic, documents, source_url, source_type, cache_key) ==
    WriteEntry(st, cache_key,
               CacheEntry(topic, source_url, source_type, documents, cache_key),
               documents)

\* MCPStore.cache_content
CacheContent(st, topic, documents, source_url, source_type) ==
    CacheUnder(st, topic, documents, source_url, source_type,
               GenerateCacheKey(topic, source_url))

\* the document _fetch_web_content makes of one page
PageDocument(url, content, chunk_id, total_chunks) ==
    [content |-> content,
     title |-> <<"Documentation from ">> \o url,
     source |-> "mcp_web",
     url |-> url,
     authors |-> <<>>,
     published |-> [kind |-> "str", text |-> <<"day", now \div UnitsPerDay>>],
     chunk_id |-> chunk_id,
     total_chunks |-> total_chunks]

\* one turn of the loop of _fetch_web_content: the cleaned page is kept if it
\* has more than MinContentLen characters
AddPage(url, documents, content, total_chunks) ==
    IF content # <<>> /\ CharLen(content) > MinContentLen
    THEN Append(documents, PageDocument(url, content, Len(documents), total_chunks))
    ELSE documents

\* the loop of _fetch_web_content over the loaded pages docs[i..]
RECURSIVE ConvertPages(_, _, _, _)
ConvertPages(url, docs, i, documents) ==
    IF i > Len(docs) THEN documents
    ELSE ConvertPages(url, docs, i + 1,
                      AddPage(url, documents, CleanHtmlContent(docs[i]), Len(docs)))

\* MCPStore._fetch_web_content; outcome is what WebBaseLoader(url).load() does:
\* it raises, or it returns a list of page texts
FetchWebContent(url, outcome) ==
    IF outcome.raises THEN <<>>
    ELSE ConvertPages(url, outcome.pages, 1, <<>>)

\* the end of fetch_and_cache_docs as it would be if it cached whatever the
\* fetch gave, an empty list included
CacheFetched_CachesEmpty(st, topic, source_url, source_type, documents) ==
    [st |-> CacheContent(st, topic, documents, source_url, source_type).st,
     ret |-> documents]

\* the end of fetch_and_cache_docs: the documents fetched are cached if there
\* are any
CacheFetched(st, topic, source_url, source_type, documents) ==
    IF documents # <<>>
    THEN [st |-> CacheContent(st, topic, documents, source_url, source_type).st,
          ret |-> documents]
    ELSE [st |-> st, ret |-> <<>>]

\* MCPStore.fetch_and_cache_docs
FetchAndCacheDocs(st, topic, source_url, source_type, outcome) ==
    CacheFetched(st, topic, source_url, source_type,
                 IF source_type = "web"
                 THEN FetchWebContent(source_url, outcome)
                 ELSE <<>>)

\* the cache_entry dict of save_topic_to_mcp
TopicEntry(topic, documents, source, cache_key) ==
    [topic |-> topic,
     source_url |-> <<"source_">> \o <<source>>,
     source_type |-> source,
     timestamp |-> IsoFormat(now),
     document_count |-> Len(documents),
     cache_key |-> cache_key]

\* the body of save_topic_to_mcp once the cache key is derived
SaveTopicUnder(st, topic, documents, source, cache_key) ==
    WriteEntry(st, cache_key, TopicEntry(topic, documents, source, cache_key), documents)

\* save_topic_to_mcp as it would be if it stored the topic under the key of
\* the first source the topic table lists for it (the key with the empty url
\* when the table lists none)
SaveTopicToMcp_UnderSourceKey(st, topic, documents, source) ==
    SaveTopicUnder(st, topic, documents, source,
                   IF FindRelevantDocs(topic) = <<>>
                   THEN GenerateCacheKey(topic, <<>>)
                   ELSE GenerateCacheKey(FindRelevantDocs(topic)[1][1],
                                         FindRelevantDocs(topic)[1][2]))

\* MCPStore.save_topic_to_mcp
SaveTopicToMcp(st, topic, documents, source) ==
    SaveTopicUnder(st, topic, documents, source, GenerateCacheKey(topic, <<>>))

\* clear_expired_cache as it would be if it dropped the index entries of
\* expired_keys and left their cache files in place
RemoveKeys_IndexOnly(st, expired_keys) ==
    [st |-> SaveMetadata([st EXCEPT
                !.metadata = [k \in (DOMAIN @) \ expired_keys |-> @[k]]]),
     ret |-> Cardinality(expired_keys)]

\* the entries and files of clear_expired_cache's expired_keys are removed
RemoveKeys(st, expired_keys) ==
    [st |-> SaveMetadata([st EXCEPT
                !.metadata = [k \in (DOMAIN @) \ expired_keys |-> @[k]],
                !.files = [k \in (DOMAIN @) \ expired_keys |-> @[k]]]),
     ret |-> Cardinality(expired_keys)]

\* MCPStore.clear_expired_cache
ClearExpiredCache(st) ==
    RemoveKeys(st, {k \in DOMAIN st.metadata : IsExpired(st.metadata[k].timestamp)})

\* clear_all_cache as it would be if it removed the cache files of the
\* keys of the index only, instead of every *.json file of the directory
ClearAllCache_IndexedOnly(st) ==
    [st |-> SaveMetadata([st EXCEPT
                !.files = [k \in (DOMAIN @) \ (DOMAIN st.metadata) |-> @[k]],
                !.metadata = EmptyDict]),
     ret |-> Cardinality(DOMAIN st.metadata)]

\* MCPStore.clear_all_cache
ClearAllCache(st) ==
    [st |-> SaveMetadata([st EXCEPT !.files = EmptyDict, !.metadata = EmptyDict]),
     ret |-> Cardinality(DOMAIN st.metadata)]

\* refresh_topic as it would be if it left the old entry of a source in
\* place before fetching the source again
ClearEntry_KeepsEntry(st, cache_key) == st

\* refresh_topic clears the entry of a source before it fetches it again
ClearEntry(st, cache_key) ==
    IF cache_key \in DOMAIN st.metadata
    THEN [st EXCEPT !.metadata = DictDel(@, cache_key),
                    !.files = DictDel(@, cache_key)]
    ELSE st

\* the fetch of refresh_topic for the i-th source, after its entry is cleared
FetchSource(st, sources, i, fetch) ==
    FetchAndCacheDocs(ClearEntry(st, GenerateCacheKey(sources[i][1], sources[i][2])),
                      sources[i][1], sources[i][2], "web", fetch[sources[i][2]])

\* what refresh_topic returns when no source gave documents
NoSourcesFound(st, metadata_before, fetched) ==
    [st |-> st,
     ret |-> [refreshed |-> FALSE,
              reason |-> "No sources found for topic",
              metadata |-> metadata_before],
     fetched |-> fetched]

\* the loop of refresh_topic over relevant_sources; r is what the fetch of
\* source i gave, fetch[url] is what the external fetch of url does.  The
\* result carries the urls fetched.
RECURSIVE RefreshLoop(_, _, _, _, _, _, _)
RefreshLoop(r, topic, metadata_before, sources, i, fetch, fetched) ==
    IF r.ret # <<>>
    THEN [st |-> r.st,
          ret |-> [refreshed |-> TRUE,
                   topic |-> sources[i][1],
                   documents_fetched |-> Len(r.ret),
                   source_url |-> sources[i][2],
                   new_metadata |-> GetTopicMetadata(r.st.metadata, topic)],
          fetched |-> fetched]
    ELSE IF i = Len(sources)
    THEN NoSourcesFound(r.st, metadata_before, fetched)
    ELSE RefreshLoop(FetchSource(r.st, sources, i + 1, fetch), topic, metadata_before,
                     sources, i + 1, fetch, Append(fetched, sources[i + 1][2]))

\* refresh_topic once the sources of the topic are found
RefreshSources(st, topic, metadata_before, sources, fetch) ==
    IF sources = <<>>
    THEN NoSourcesFound(st, metadata_before, <<>>)
    ELSE RefreshLoop(FetchSource(st, sources, 1, fetch), topic, metadata_before,
                     sources, 1, fetch, <<sources[1][2]>>)

\* refresh_topic once the metadata of the topic is looked up
RefreshWith(st, topic, force_refresh, fetch, meta) ==
    IF ~force_refresh /\ meta.cached /\ ~meta.needs_refresh
    THEN [st |-> st,
          ret |-> [refreshed |-> FALSE,
                   reason |-> "Topic is still fresh",
                   metadata |-> meta],
          fetched |-> <<>>]
    ELSE RefreshSources(st, topic, meta, FindRelevantDocs(topic), fetch)

\* MCPStore.refresh_topic
RefreshTopic(st, topic, force_refresh, fetch) ==
    RefreshWith(st, topic, force_refresh, fetch, GetTopicMetadata(st.metadata, topic))

\* ------------------------------------------------------------------------
\* Querying the store
\* ------------------------------------------------------------------------

\* all_documents.extend(cached_content["documents"]), if there is cached content
DocumentsOf(cached_content) ==
    IF cached_content.found THEN cached_content.documents ELSE <<>>

\* the documents of the cached, unexpired sources sources[i..], concatenated
RECURSIVE AllDocuments(_, _, _, _)
AllDocuments(m, f, sources, i) ==
    IF i > Len(sources) THEN <<>>
    ELSE DocumentsOf(GetCachedContent(m, f, sources[i][1], sources[i][2]))
         \o AllDocuments(m, f, sources, i + 1)

\* sum(1 for term in query_terms if term in content)
RelevanceScore(query_terms, content) ==
    Cardinality({j \in 1..Len(query_terms) : Contains(content, query_terms[j])})

\* a document is kept, with its relevance_score, if the score is positive
Scored(doc, relevance_score) ==
    IF relevance_score > 0
    THEN <<DictSet(doc, "relevance_score", relevance_score)>>
    ELSE <<>>

\* the documents with a positive score, each with its relevance_score
RECURSIVE ScoreDocuments(_, _, _)
ScoreDocuments(query_terms, docs, i) ==
    IF i > Len(docs) THEN <<>>
    ELSE Scored(docs[i], RelevanceScore(query_terms, Lower(docs[i].content)))
         \o ScoreDocuments(query_terms, docs, i + 1)

\* insertion of d into a list sorted by descending score, after its equals
RECURSIVE InsertByScore(_, _)
InsertByScore(sorted, d) ==
    IF sorted = <<>> THEN <<d>>
    ELSE IF Head(sorted).relevance_score >= d.relevance_score
         THEN <<Head(sorted)>> \o InsertByScore(Tail(sorted), d)
         ELSE <<d>> \o sorted

\* list.sort(key=relevance_score, reverse=True): stable, descending
RECURSIVE SortByScore(_, _)
SortByScore(docs, i) ==
    IF i = 0 THEN <<>>
    ELSE InsertByScore(SortByScore(docs, i - 1), docs[i])

\* relevant_docs[:5]
TopDocuments(relevant_docs) ==
    IF Len(relevant_docs) > TopK THEN SubSeq(relevant_docs, 1, TopK) ELSE relevant_docs

\* the dict query_mcp returns for the sorted relevant documents
QueryResult(relevant_docs) ==
    [found |-> TRUE,
     documents |-> TopDocuments(relevant_docs),
     source |-> "mcp_cache",
     cache_age |-> GetCacheAge(IsoFormat(now)),
     total_found |-> Len(relevant_docs)]

\* the element of a set of one element: TheOne({F(v) : v \in {e}}) is F(e),
\* with e computed once
TheOne(S) == CHOOSE x \in S : TRUE

\* relevant_docs.sort(...) on the scored documents
RankDocuments(scored) ==
    TheOne({SortByScore(relevant_docs, Len(relevant_docs)) : relevant_docs \in {scored}})

\* query_mcp once the documents of the relevant sources are collected
QueryDocuments(query, all_documents) ==
    IF all_documents = <<>> THEN None
    ELSE TheOne({QueryResult(relevant_docs) : relevant_docs \in
                    {RankDocuments(ScoreDocuments(Split(Lower(query)), all_documents, 1))}})

\* MCPStore.query_mcp
QueryMcp(m, f, query) ==
    TheOne({QueryDocuments(query, all_documents) : all_documents \in
               {AllDocuments(m, f, FindRelevantDocs(query), 1)}})

\* check_mcp_for_docs passes the result on if it has documents
CheckResult(mcp_result) ==
    IF mcp_result.found /\ mcp_result.documents # <<>> THEN mcp_result ELSE None

\* RoboticsSummarizer.check_mcp_for_docs
CheckMcpForDocs(m, f, query) == CheckResult(QueryMcp(m, f, query))

\* ------------------------------------------------------------------------
\* The question workflow (RoboticsSummarizer.process_question_with_workflow)
\* An outcome is [st, ret, calls, context]: the store state left, the result
\* returned, the collaborators called in order, and the documents that were
\* formatted into the LLM's context.
\* ------------------------------------------------------------------------

\* a call of a collaborator, by its name
Call(name) == <<name, <<>>>>

\* a call of a collaborator and what it returned
Returned(name, value) == <<name, value>>

\* a call of the LLM (chain.run or llm.invoke) and whether it raised
LlmCall(name, llm_raises) == <<name, IF llm_raises THEN <<"raises">> ELSE <<"returns">>>>

\* the title of every document (extract_sources_from_mcp / _from_arxiv)
ExtractSources(documents, source) ==
    [i \in 1..Len(documents) |-> [title |-> documents[i].title, source |-> source]]

\* extract_references_from_mcp
ExtractReferences(documents) ==
    [i \in 1..Len(documents) |->
        [title |-> documents[i].title, source |-> documents[i].source]]

\* the except branch of process_question_with_workflow
ErrorResult ==
    [answer |-> "Sorry, I encountered an error",
     source_type |-> "error",
     source_badge |-> <<"[error]">>,
     documents_used |-> 0,
     sources |-> <<>>]

\* a branch that ends with a call of the LLM as it would be if the exception
\* of a raising call left process_question_with_workflow
Answered_Propagates(st, calls, context, llm_raises, result) ==
    [st |-> st,
     ret |-> IF llm_raises THEN [raised |-> "Exception"] ELSE result,
     calls |-> calls,
     context |-> context]

\* the outcome of a branch that ends with a call of the LLM: the result of
\* the branch, or the error result if the call raised
Answered(st, calls, context, llm_raises, result) ==
    [st |-> st,
     ret |-> IF llm_raises THEN ErrorResult ELSE result,
     calls |-> calls,
     context |-> context]

\* the result of step 4
DirectResult ==
    [answer |-> "response",
     source |-> "gemini",
     source_type |-> "llm",
     source_badge |-> <<"[from GEMINI]">>,
     documents_used |-> 0,
     sources |-> <<>>,
     references |-> <<>>]

\* Step 4: the direct LLM answer (self.llm.invoke)
DirectAnswer(st, question, calls, llm_raises) ==
    Answered(st, Append(calls, LlmCall("llm.invoke", llm_raises)), <<>>,
             llm_raises, DirectResult)

\* the result of step 3 for the documents found on arXiv
ArxivResult(documents) ==
    [answer |-> "response",
     source |-> "arxiv",
     source_type |-> "arxiv",
     source_badge |-> <<"[from ARXIV]", now \div UnitsPerDay>>,
     documents_used |-> Len(documents),
     last_updated |-> IsoFormat(now),
     needs_refresh |-> FALSE,
     references |-> <<>>,
     sources |-> ExtractSources(documents, "arxiv")]

\* " ".join(words[0:3]): the first three words, or all if there are fewer
TopicOfQuestion(words) ==
    JoinSpace(IF Len(words) > 3 THEN SubSeq(words, 1, 3) ELSE words)

\* Step 3 when arXiv gave documents: they are saved to the store and answered
\* from
AnswerFromArxiv(st, question, calls, documents, llm_raises) ==
    Answered(SaveTopicToMcp(st, TopicOfQuestion(Split(question)), documents, "arxiv").st,
             Append(Append(calls, Call("save_topic_to_mcp")),
                    LlmCall("chain.run", llm_raises)),
             documents, llm_raises, ArxivResult(documents))

\* Step 3 after the arXiv search: its documents are used if it gave any,
\* step 4 follows if not
AfterArxiv(st, question, calls, arxiv, llm_raises) ==
    IF arxiv.success /\ arxiv.documents # <<>>
    THEN AnswerFromArxiv(st, question, calls, arxiv.documents, llm_raises)
    ELSE DirectAnswer(st, question, calls, llm_raises)

\* Step 3 once the source type of the question is determined
SearchBySourceType(st, question, calls, arxiv, llm_raises, source_type) ==
    IF source_type = "arxiv"
    THEN AfterArxiv(st, question,
                    Append(calls, <<"arxiv.search_and_process", arxiv.documents>>),
                    arxiv, llm_raises)
    ELSE DirectAnswer(st, question, calls, llm_raises)

\* Step 3: the arXiv search, for questions determine_source_type calls academic
ExternalSearch(st, question, calls, arxiv, llm_raises) ==
    SearchBySourceType(st, question, Append(calls, Call("determine_source_type")),
                       arxiv, llm_raises, DetermineSourceType(question))

\* the result of the fresh branch of step 1
CacheResult(documents, topic_metadata) ==
    [answer |-> "response",
     source |-> "mcp",
     source_type |-> topic_metadata.source_type,
     source_badge |-> <<"[from", topic_metadata.source_type,
                        "updated", topic_metadata.last_updated>>,
     documents_used |-> Len(documents),
     cache_age |-> topic_metadata.age_days,
     last_updated |-> topic_metadata.last_updated,
     needs_refresh |-> topic_metadata.needs_refresh,
     sources |-> ExtractSources(documents, "mcp_cache"),
     references |-> ExtractReferences(documents)]

\* the fresh branch as it would be if it wrote the documents it read back to
\* the store
AnswerFromCache_Recaches(st, question, calls, mcp_result, topic_metadata, llm_raises) ==
    Answered(SaveTopicToMcp(st, question, mcp_result.documents, "mcp").st,
             Append(calls, LlmCall("chain.run", llm_raises)),
             mcp_result.documents, llm_raises,
             CacheResult(mcp_result.documents, topic_metadata))

\* Step 1, first branch: the answer from fresh cached documents
AnswerFromCache(st, question, calls, mcp_result, topic_metadata, llm_raises) ==
    Answered(st, Append(calls, LlmCall("chain.run", llm_raises)),
             mcp_result.documents, llm_raises,
             CacheResult(mcp_result.documents, topic_metadata))

\* the result of step 2 for the documents read after the refresh
RefreshedResult(documents) ==
    [answer |-> "response",
     source |-> "mcp_refreshed",
     source_type |-> "arxiv",
     source_badge |-> <<"[from ARXIV] (freshly updated)">>,
     documents_used |-> Len(documents),
     last_updated |-> IsoFormat(now),
     needs_refresh |-> FALSE,
     sources |-> ExtractSources(documents, "mcp_cache"),
     references |-> ExtractReferences(documents)]

\* Step 2 after the second check_mcp_for_docs: mcp_result["documents"] raises
\* TypeError when the check returned None
AnswerRefreshed(st, calls, mcp_result, llm_raises) ==
    IF ~mcp_result.found
    THEN [st |-> st, ret |-> ErrorResult, calls |-> calls, context |-> <<>>]
    ELSE Answered(st, Append(calls, LlmCall("chain.run", llm_raises)),
                  mcp_result.documents, llm_raises,
                  RefreshedResult(mcp_result.documents))

\* Step 2 after a refresh that succeeded: the cache is queried again and the
\* metadata of the topic looked up again
Requery(st, calls, mcp_result, llm_raises) ==
    AnswerRefreshed(st,
                    Append(Append(calls, Returned("check_mcp_for_docs", mcp_result.found)),
                           Call("get_topic_metadata")),
                    mcp_result, llm_raises)

\* the calls made by refresh_topic: the call itself with its verdict, and the
\* urls it fetched
RefreshCalls(calls, r) ==
    Append(calls, Returned("refresh_topic", r.ret.refreshed)) \o
    [i \in 1..Len(r.fetched) |-> <<"fetch", r.fetched[i]>>]

\* Step 2 after refresh_topic returned r: step 3 follows if it did not refresh
AfterRefresh(r, question, calls, arxiv, llm_raises) ==
    IF r.ret.refreshed
    THEN Requery(r.st, RefreshCalls(calls, r),
                 CheckMcpForDocs(r.st.metadata, r.st.files, question), llm_raises)
    ELSE ExternalSearch(r.st, question, RefreshCalls(calls, r), arxiv, llm_raises)

\* Step 2: the stale branch
RefreshAndAnswer(st, question, calls, fetch, arxiv, llm_raises) ==
    AfterRefresh(RefreshTopic(st, question, FALSE, fetch), question, calls,
                 arxiv, llm_raises)

\* Step 1 of process_question_with_workflow: the cache is queried and the
\* freshness of the topic is looked up
CheckCache(st, question) ==
    [mcp_result |-> CheckMcpForDocs(st.metadata, st.files, question),
     topic_metadata |-> GetTopicMetadata(st.metadata, question)]

\* the calls of step 1 and what they returned
CheckCalls(mcp_result, topic_metadata) ==
    <<Returned("check_mcp_for_docs", mcp_result.found),
      Returned("get_topic_metadata", topic_metadata.needs_refresh)>>

\* the choice of process_question_with_workflow between its branches
Branch(st, question, mcp_result, topic_metadata, calls, fetch, arxiv, llm_raises) ==
    IF mcp_result.found /\ ~topic_metadata.needs_refresh
    THEN AnswerFromCache(st, question, calls, mcp_result, topic_metadata, llm_raises)
    ELSE IF mcp_result.found /\ topic_metadata.needs_refresh
    THEN RefreshAndAnswer(st, question, calls, fetch, arxiv, llm_raises)
    ELSE ExternalSearch(st, question, calls, arxiv, llm_raises)

\* the branches of process_question_with_workflow that follow step 1
WorkflowAfterCheck(st, question, checked, fetch, arxiv, llm_raises) ==
    Branch(st, question, checked.mcp_result, checked.topic_metadata,
           CheckCalls(checked.mcp_result, checked.topic_metadata),
           fetch, arxiv, llm_raises)

\* RoboticsSummarizer.process_question_with_workflow
ProcessQuestionWithWorkflow(st, question, fetch, arxiv, llm_raises) ==
    WorkflowAfterCheck(st, question, CheckCache(st, question), fetch, arxiv, llm_raises)

\* ------------------------------------------------------------------------
\* Inputs of the model
\* ------------------------------------------------------------------------

LoaderRaises == [raises |-> TRUE, pages |-> <<>>]

\* what WebBaseLoader(url).load() can do
FetchOutcomes ==
    {LoaderRaises} \cup
    {[raises |-> FALSE, pages |-> p] : p \in {<<>>, <<PageShort>>, <<PageRel>>}}

\* what the loader can do when refresh_topic is called
RefreshOutcomes ==
    {LoaderRaises} \cup
    {[raises |-> FALSE, pages |-> p] : p \in {<<PageShort>>, <<PageRel>>}}

\* what the loader can do while a question is answered: it raises, it returns
\* a page about ROS, or it returns pages that do not mention ROS
WorkflowOutcomes ==
    {LoaderRaises} \cup
    {[raises |-> FALSE, pages |-> p] : p \in {<<PageRel>>, <<PageShort, PageOther>>}}

\* the urls the workflow and refresh_topic fetch for the questions below
FetchedUrls == {RosUrl1, RosUrl2}

DocA == [content |-> <<"s","l","a","m"," ","a">>, title |-> <<"A">>, source |-> "web",
         url |-> UrlX, authors |-> <<>>,
         published |-> [kind |-> "str", text |-> <<"2024-01-01">>],
         chunk_id |-> 0, total_chunks |-> 2]

DocB == [content |-> <<"s","l","a","m"," ","b">>, title |-> <<"B">>, source |-> "web",
         url |-> UrlX, authors |-> <<>>,
         published |-> [kind |-> "date", text |-> <<"2024-01-02">>],
         chunk_id |-> 1, total_chunks |-> 2]

DocC == [content |-> <<"s","l","a","m"," ","c">>, title |-> <<"C">>, source |-> "web",
         url |-> UrlX, authors |-> <<>>,
         published |-> [kind |-> "str", text |-> <<"2024-01-03">>],
         chunk_id |-> 0, total_chunks |-> 1]

\* the calls of cache_content: (topic, source_url, source_type, documents)
PutInputs ==
    {<<Slam, UrlX, "web", <<DocA, DocB>>>>,
     <<Slam, UrlX, "web", <<DocC>>>>,
     <<Slam, UrlX, "pdf", <<>>>>}

\* the calls of fetch_and_cache_docs: (topic, source_url, source_type)
FetchInputs ==
    {<<Ros, RosUrl1, "web">>,
     <<Ros, RosUrl2, "web">>,
     <<Slam, UrlX, "pdf">>}

\* the calls of fetch_and_cache_docs that fill the cache the questions use
SeedInputs == {<<Ros, RosUrl1, "web">>, <<Ros, RosUrl2, "web">>}

\* the topics refresh_topic is called with
RefreshTopics == {Ros}

ArxivDoc == [content |-> <<"T","i","t","l","e",":"," ","S","L","A","M">>,
             title |-> <<"P">>, source |-> "arxiv",
             url |-> <<"http://arxiv.org/pdf/1">>, authors |-> <<"a">>,
             published |-> [kind |-> "str", text |-> <<"2020-01-01">>],
             chunk_id |-> 0, total_chunks |-> 1]

\* what ArxivSearcher.search_and_process can return
ArxivOutcomes ==
    {[success |-> FALSE, documents |-> <<>>],
     [success |-> TRUE, documents |-> <<>>],
     [success |-> TRUE, documents |-> <<ArxivDoc>>]}

\* ------------------------------------------------------------------------
\* Actions
\* ------------------------------------------------------------------------

Init ==
    /\ now = 0
    /\ expiry_days \in ExpiryChoices
    /\ metadata = EmptyDict
    /\ disk_meta = EmptyDict
    /\ files = EmptyDict
    /\ last = [op |-> "init"]

\* the store constructed with the default expiry_days
InitDefault ==
    /\ Init
    /\ expiry_days = DefaultExpiryDays

\* the store state st becomes the state of the program
Becomes(st) ==
    /\ metadata' = st.metadata
    /\ disk_meta' = st.disk_meta
    /\ files' = st.files

\* time passes
Tick ==
    /\ \E t \in Instants : t > now /\ t <= MaxNow /\ now' = t
    /\ last' = [op |-> "tick"]
    /\ UNCHANGED <<expiry_days, metadata, disk_meta, files>>

\* a call of cache_content; replaced is the document_count the index held
\* under the key before the call (0 when it held none)
Put ==
    \E in \in PutInputs :
        \E r \in {CacheContent(Store, in[1], in[4], in[2], in[3])} :
            /\ Becomes(r.st)
            /\ last' = [op |-> "cache_content", topic |-> in[1], source_url |-> in[2],
                        source_type |-> in[3], documents |-> in[4], ret |-> r.ret,
                        replaced |-> IF r.ret \in DOMAIN metadata
                                     THEN metadata[r.ret].document_count
                                     ELSE 0]
            /\ UNCHANGED <<now, expiry_days>>

\* a call of fetch_and_cache_docs (POST /mcp/fetch_docs)
FetchAndCache ==
    \E in \in FetchInputs, outcome \in FetchOutcomes :
        \E r \in {FetchAndCacheDocs(Store, in[1], in[2], in[3], outcome)} :
            /\ Becomes(r.st)
            /\ last' = [op |-> "fetch_and_cache_docs", topic |-> in[1],
                        source_url |-> in[2], source_type |-> in[3],
                        outcome |-> outcome, ret |-> r.ret]
            /\ UNCHANGED <<now, expiry_days>>

\* a call of refresh_topic (POST /refresh_topic)
Refresh ==
    \E topic \in RefreshTopics, force \in BOOLEAN, fetch \in [FetchedUrls -> RefreshOutcomes] :
        \E r \in {RefreshTopic(Store, topic, force, fetch)} :
            /\ Becomes(r.st)
            /\ last' = [op |-> "refresh_topic", topic |-> topic, force |-> force,
                        ret |-> r.ret, fetched |-> r.fetched]
            /\ UNCHANGED <<now, expiry_days>>

\* a call of process_question_with_workflow (POST /process_question)
Ask ==
    \E question \in Questions :
        \E checked \in {CheckCache(Store, question)} :
            \E fetch \in [FetchedUrls -> WorkflowOutcomes],
               arxiv \in ArxivOutcomes, llm_raises \in BOOLEAN :
                \E r \in {WorkflowAfterCheck(Store, question, checked,
                                              fetch, arxiv, llm_raises)} :
                    /\ Becomes(r.st)
                    /\ last' = [op |-> "process_question", question |-> question,
                                ret |-> r.ret, calls |-> r.calls,
                                context |-> r.context]
                    /\ UNCHANGED <<now, expiry_days>>

\* a call of clear_expired_cache (DELETE /mcp/clear_expired)
ClearExpired ==
    \E r \in {ClearExpiredCache(Store)} :
        /\ Becomes(r.st)
        /\ last' = [op |-> "clear_expired_cache", ret |-> r.ret]
        /\ UNCHANGED <<now, expiry_days>>

\* a call of clear_all_cache (DELETE /mcp/clear_all)
ClearAll ==
    \E r \in {ClearAllCache(Store)} :
        /\ Becomes(r.st)
        /\ last' = [op |-> "clear_all_cache", ret |-> r.ret,
                    removed |-> Cardinality(DOMAIN files)]
        /\ UNCHANGED <<now, expiry_days>>

\* a call of fetch_and_cache_docs for a source of the topic table
Seed ==
    \E in \in SeedInputs, outcome \in WorkflowOutcomes :
        \E r \in {FetchAndCacheDocs(Store, in[1], in[2], in[3], outcome)} :
            /\ Becomes(r.st)
            /\ last' = [op |-> "fetch_and_cache_docs", topic |-> in[1],
                        source_url |-> in[2], source_type |-> in[3],
                        outcome |-> outcome, ret |-> r.ret]
            /\ UNCHANGED <<now, expiry_days>>

\* a call of refresh_topic with the topic of an entry of the index (POST
\* /refresh_topic for a topic that was cached); fetch[url] is what the fetch
\* of url does, for the url of the entry and the urls of the topic table
RefreshEntry ==
    \E k \in DOMAIN metadata, force \in BOOLEAN :
        \E fetch \in [FetchedUrls \cup {metadata[k].source_url} -> RefreshOutcomes] :
            \E r \in {RefreshTopic(Store, metadata[k].topic, force, fetch)} :
                /\ Becomes(r.st)
                /\ last' = [op |-> "refresh_topic", topic |-> metadata[k].topic,
                            source_url |-> metadata[k].source_url, force |-> force,
                            fetch |-> fetch, ret |-> r.ret, fetched |-> r.fetched]
                /\ UNCHANGED <<now, expiry_days>>

\* a document file is removed from the cache directory by something other
\* than the store
LoseFile ==
    /\ \E k \in DOMAIN files :
           /\ files' = DictDel(files, k)
           /\ last' = [op |-> "lose_file", cache_key |-> k]
    /\ UNCHANGED <<now, expiry_days, metadata, disk_meta>>

\* a document file is left with content that is not JSON (a write cut short)
DamageFile ==
    /\ \E k \in DOMAIN files :
           /\ Parses(files[k])
           /\ files' = [files EXCEPT ![k] = Unparsable]
           /\ last' = [op |-> "damage_file", cache_key |-> k]
    /\ UNCHANGED <<now, expiry_days, metadata, disk_meta>>

\* mcp_metadata.json is left with content that is not JSON
DamageMetadata ==
    /\ Parses(disk_meta)
    /\ disk_meta' = Unparsable
    /\ last' = [op |-> "damage_metadata"]
    /\ UNCHANGED <<now, expiry_days, metadata, files>>

\* the process starts again: MCPStore(...) is constructed over the cache
\* directory as the last process left it
Restart ==
    /\ metadata' = LoadMetadata(disk_meta)
    /\ last' = [op |-> "restart", parsed |-> Parses(disk_meta)]
    /\ UNCHANGED <<now, expiry_days, disk_meta, files>>

\* the arguments _generate_cache_key is called with: topic and source_url
\* character by character; base is the topic in lower case without the
\* whitespace around it, so two topics of one base differ by letter case
\* and surrounding whitespace only
KeyInputs ==
    {[base |-> <<"a","_","b">>, topic |-> <<"a","_","b">>, source_url |-> <<"c">>],
     [base |-> <<"a","_","b">>, topic |-> <<" ","A","_","B">>, source_url |-> <<"c">>],
     [base |-> <<"a","_","b">>, topic |-> <<"A","_","b","\t","\n">>, source_url |-> <<"c">>],
     [base |-> <<"a">>, topic |-> <<"a">>, source_url |-> <<"b","_","c">>],
     [base |-> <<"a">>, topic |-> <<" ","A"," ">>, source_url |-> <<"b","_","c">>],
     [base |-> <<"a">>, topic |-> <<"a">>, source_url |-> <<>>],
     [base |-> <<"a">>, topic |-> <<"\r","A">>, source_url |-> <<>>],
     [base |-> <<"a","_","b">>, topic |-> <<"a","_","B"," ">>, source_url |-> <<>>]}

\* two argument pairs are drawn; nothing is cached and no key is derived yet
InitKeys ==
    /\ now = 0
    /\ expiry_days = DefaultExpiryDays
    /\ metadata = EmptyDict
    /\ disk_meta = EmptyDict
    /\ files = EmptyDict
    /\ last \in {[op |-> "init", first |-> a, second |-> b, instance |-> 1,
                  first_calls |-> {}, second_calls |-> {}] : a, b \in KeyInputs}

\* a call of _generate_cache_key in the running store instance
KeyCall(in) ==
    [key |-> GenerateCacheKey(in.topic, in.source_url), instance |-> last.instance]

\* _generate_cache_key is called with the first pair
KeyOfFirst ==
    /\ last' = [last EXCEPT !.op = "generate_cache_key",
                            !.first_calls = @ \cup {KeyCall(last.first)}]
    /\ UNCHANGED <<now, expiry_days, metadata, disk_meta, files>>

\* _generate_cache_key is called with the second pair
KeyOfSecond ==
    /\ last' = [last EXCEPT !.op = "generate_cache_key",
                            !.second_calls = @ \cup {KeyCall(last.second)}]
    /\ UNCHANGED <<now, expiry_days, metadata, disk_meta, files>>

\* a call of cache_content between the calls of _generate_cache_key
KeysPut ==
    /\ \E in \in PutInputs :
           Becomes(CacheContent(Store, in[1], in[4], in[2], in[3]).st)
    /\ UNCHANGED <<now, expiry_days, last>>

\* the process starts again between the calls of _generate_cache_key
KeysRestart ==
    /\ last.instance < MaxInstances
    /\ metadata' = LoadMetadata(disk_meta)
    /\ last' = [last EXCEPT !.instance = @ + 1]
    /\ UNCHANGED <<now, expiry_days, disk_meta, files>>

\* the store under its own operations, with the default expiry_days
Next ==
    \/ Tick
    \/ Put
    \/ FetchAndCache
    \/ Refresh
    \/ ClearExpired
    \/ ClearAll

Spec == InitDefault /\ [][Next]_vars

\* the same store constructed with any of the expiry_days of ExpiryChoices
SpecConfigured == Init /\ [][Next]_vars

\* the question workflow over a cache filled by fetch_and_cache_docs
NextWorkflow ==
    \/ Tick
    \/ Seed
    \/ Ask

SpecWorkflow == InitDefault /\ [][NextWorkflow]_vars

\* entries written by cache_content, and refresh_topic called for them
NextRefresh ==
    \/ Tick
    \/ Put
    \/ RefreshEntry

SpecRefresh == InitDefault /\ [][NextRefresh]_vars

\* the store over a cache directory whose files can be lost or damaged
NextFaults ==
    \/ Tick
    \/ Put
    \/ LoseFile
    \/ DamageFile
    \/ DamageMetadata
    \/ Restart
    \/ ClearAll

SpecFaults == InitDefault /\ [][NextFaults]_vars

\* the store started again over the cache directory it filled, with a
\* metadata file that can be damaged in between
NextRestart ==
    \/ Tick
    \/ Seed
    \/ DamageMetadata
    \/ Restart

SpecRestart == InitDefault /\ [][NextRestart]_vars

\* ------------------------------------------------------------------------
\* The writes of cache_content and refresh_topic, statement by statement
\* Two callers write the entry of the first ROS source; last.writers[w] is
\* where caller w stands, and the process can stop between any two
\* statements.
\* ------------------------------------------------------------------------

Writers == {1, 2}

\* the documents a caller writes
WriterDocuments == {<<DocA, DocB>>, <<DocC>>}

\* the key the callers write under
WriterKey == GenerateCacheKey(Ros, RosUrl1)

\* a caller that is not inside a call
IdleWriter ==
    [pc |-> "idle", kind |-> "none", documents |-> <<>>, before |-> EmptyDict,
     ret |-> None]

\* the store over an empty cache directory, nobody inside a call
InitWriters ==
    /\ now = 0
    /\ expiry_days = DefaultExpiryDays
    /\ metadata = EmptyDict
    /\ disk_meta = EmptyDict
    /\ files = EmptyDict
    /\ last = [op |-> "statements", after_crash |-> FALSE,
               writers |-> [w \in Writers |-> IdleWriter]]

\* caller w stands at pc
WriterAt(w, pc) == last.op = "statements" /\ last.writers[w].pc = pc

\* caller w moves on to pc
WriterMoves(w, pc) ==
    last' = [last EXCEPT !.writers[w].pc = pc]

\* the cache_entry dict caller w builds
WriterEntry(w) ==
    CacheEntry(Ros, RosUrl1, "web", last.writers[w].documents, WriterKey)

\* caller w enters cache_content(topic, documents, source_url, "web")
BeginPut(w) ==
    /\ WriterAt(w, "idle")
    /\ \E documents \in WriterDocuments :
           last' = [last EXCEPT !.after_crash = FALSE,
                                !.writers[w] = [IdleWriter EXCEPT !.pc = "index",
                                                                  !.kind = "put",
                                                                  !.documents = documents]]
    /\ UNCHANGED <<now, expiry_days, metadata, disk_meta, files>>

\* caller w enters the loop body of refresh_topic for the source; documents
\* is what the fetch will return
BeginRefresh(w) ==
    /\ WriterAt(w, "idle")
    /\ \E documents \in WriterDocuments :
           last' = [last EXCEPT !.after_crash = FALSE,
                                !.writers[w] = [IdleWriter EXCEPT !.pc = "del_index",
                                                                  !.kind = "refresh",
                                                                  !.documents = documents]]
    /\ UNCHANGED <<now, expiry_days, metadata, disk_meta, files>>

\* refresh_topic: if cache_key in self.metadata: del self.metadata[cache_key]
DelIndex(w) ==
    /\ WriterAt(w, "del_index")
    /\ IF WriterKey \in DOMAIN metadata
       THEN metadata' = DictDel(metadata, WriterKey) /\ WriterMoves(w, "del_file")
       ELSE metadata' = metadata /\ WriterMoves(w, "index")
    /\ UNCHANGED <<now, expiry_days, disk_meta, files>>

\* refresh_topic: if cache_file.exists(): cache_file.unlink()
DelFile(w) ==
    /\ WriterAt(w, "del_file")
    /\ files' = DictDel(files, WriterKey)
    /\ WriterMoves(w, "index")
    /\ UNCHANGED <<now, expiry_days, metadata, disk_meta>>

\* cache_content: self.metadata[cache_key] = cache_entry
SetIndex(w) ==
    /\ WriterAt(w, "index")
    /\ metadata' = DictSet(metadata, WriterKey, WriterEntry(w))
    /\ WriterMoves(w, "open")
    /\ UNCHANGED <<now, expiry_days, disk_meta, files>>

\* _save_metadata: open(self.metadata_file, 'w') empties the file; before is
\* what the file held
OpenMetadataFile(w) ==
    /\ WriterAt(w, "open")
    /\ disk_meta' = Unparsable
    /\ last' = [last EXCEPT !.writers[w].pc = "dump",
                            !.writers[w].before = disk_meta]
    /\ UNCHANGED <<now, expiry_days, metadata, files>>

\* _save_metadata: json.dump(self.metadata, f) and the file is closed
DumpMetadata(w) ==
    /\ WriterAt(w, "dump")
    /\ disk_meta' = metadata
    /\ WriterMoves(w, "write")
    /\ UNCHANGED <<now, expiry_days, metadata, files>>

\* cache_content: the document file is written and the key returned, or the
\* write raises and "" is returned
WriteBatch(w) ==
    /\ WriterAt(w, "write")
    /\ \E raises \in BOOLEAN :
           IF raises
           THEN /\ files' = files
                /\ last' = [last EXCEPT !.writers[w].pc = "done",
                                        !.writers[w].ret = <<>>]
           ELSE /\ files' = DictSet(files, WriterKey,
                                    [documents |-> JsonDocuments(last.writers[w].documents),
                                     metadata |-> WriterEntry(w)])
                /\ last' = [last EXCEPT !.writers[w].pc = "done",
                                        !.writers[w].ret = WriterKey]
    /\ UNCHANGED <<now, expiry_days, metadata, disk_meta>>

\* the call of caller w has returned and the caller can call again
Return(w) ==
    /\ WriterAt(w, "done")
    /\ \A v \in Writers : last.writers[v].pc \in {"idle", "done"}
    /\ last' = [last EXCEPT !.writers[w] = IdleWriter]
    /\ UNCHANGED <<now, expiry_days, metadata, disk_meta, files>>

\* the process stops where it stands and is started again: the callers are
\* gone and MCPStore.__init__ loads the index from mcp_metadata.json
Crash ==
    /\ last.op = "statements"
    /\ metadata' = LoadMetadata(disk_meta)
    /\ last' = [last EXCEPT !.after_crash = TRUE,
                            !.writers = [w \in Writers |-> IdleWriter]]
    /\ UNCHANGED <<now, expiry_days, disk_meta, files>>

\* one statement of one caller
WriterStep ==
    \E w \in Writers :
        \/ BeginPut(w)
        \/ BeginRefresh(w)
        \/ DelIndex(w)
        \/ DelFile(w)
        \/ SetIndex(w)
        \/ OpenMetadataFile(w)
        \/ DumpMetadata(w)
        \/ WriteBatch(w)
        \/ Return(w)

NextWriters ==
    \/ WriterStep
    \/ Crash

SpecWriters == InitWriters /\ [][NextWriters]_vars

\* ------------------------------------------------------------------------
\* Two MCPStore objects of one process over one cache directory: the one of
\* main.py (its index is metadata) and the one of the summarizer (its index
\* is last.summarizer)
\* ------------------------------------------------------------------------

\* both objects are constructed over an empty cache directory
InitHandles ==
    /\ now = 0
    /\ expiry_days = DefaultExpiryDays
    /\ metadata = EmptyDict
    /\ disk_meta = EmptyDict
    /\ files = EmptyDict
    /\ last = [op |-> "init", summarizer |-> EmptyDict]

\* the store as the summarizer's object sees it
SummarizerStore ==
    [metadata |-> last.summarizer, disk_meta |-> disk_meta, files |-> files]

\* the summarizer's object is left in state st by the call op
SummarizerBecomes(st, op) ==
    /\ last' = [op |-> op, summarizer |-> st.metadata]
    /\ disk_meta' = st.disk_meta
    /\ files' = st.files
    /\ UNCHANGED <<now, expiry_days, metadata>>

\* POST /mcp/fetch_docs: mcp_store.fetch_and_cache_docs of main.py
ApiFetch ==
    \E in \in SeedInputs, outcome \in WorkflowOutcomes :
        \E r \in {FetchAndCacheDocs(Store, in[1], in[2], in[3], outcome)} :
            /\ Becomes(r.st)
            /\ last' = [last EXCEPT !.op = "api.fetch_and_cache_docs"]
            /\ UNCHANGED <<now, expiry_days>>

\* the arXiv branch of a question: self.mcp_store.save_topic_to_mcp of the
\* summarizer
SummarizerSave ==
    \E question \in Questions :
        SummarizerBecomes(
            SaveTopicToMcp(SummarizerStore, TopicOfQuestion(Split(question)),
                           <<ArxivDoc>>, "arxiv").st,
            "summarizer.save_topic_to_mcp")

\* the refresh branch of a question: self.mcp_store.refresh_topic of the
\* summarizer
SummarizerRefresh ==
    \E fetch \in [FetchedUrls -> RefreshOutcomes] :
        SummarizerBecomes(RefreshTopic(SummarizerStore, Ros, FALSE, fetch).st,
                          "summarizer.refresh_topic")

NextHandles ==
    \/ ApiFetch
    \/ SummarizerSave
    \/ SummarizerRefresh

SpecHandles == InitHandles /\ [][NextHandles]_vars

\* key derivation for two argument pairs, across writes and restarts
NextKeys ==
    \/ KeyOfFirst
    \/ KeyOfSecond
    \/ KeysPut
    \/ KeysRestart

SpecKeys == InitKeys /\ [][NextKeys]_vars

\* ------------------------------------------------------------------------
\* The question workflow, step by step
\* While a question is being answered, last holds the request: the step it
\* is at, the steps it went through, what step 1 found, the documents put
\* into the LLM's context and, at the end, the result returned.
\* ------------------------------------------------------------------------

\* the steps a request ends at: a result was returned by a branch, or by the
\* except branch
TerminalSteps == {"answered", "failed"}

\* a question is being answered
InProgress == last.op = "workflow" /\ last.step \notin TerminalSteps

\* the request in progress is at this step
At(step) == last.op = "workflow" /\ last.step = step

\* no result yet
Pending == [pending |-> TRUE]

\* the request in progress, moved to the next step
Moved(step, mcp_result, topic_metadata, documents, ret) ==
    [op |-> "workflow",
     step |-> step,
     question |-> last.question,
     visited |-> Append(last.visited, step),
     mcp_result |-> mcp_result,
     topic_metadata |-> topic_metadata,
     documents |-> documents,
     ret |-> ret]

\* the request in progress, ended with the result ret
Ended(documents, ret) ==
    Moved(IF ret = ErrorResult THEN "failed" ELSE "answered",
          last.mcp_result, last.topic_metadata, documents, ret)

\* the step that follows step 1: the if / elif / fall-through of
\* process_question_with_workflow
BranchStep(mcp_result, topic_metadata) ==
    IF mcp_result.found /\ ~topic_metadata.needs_refresh THEN "answer_from_cache"
    ELSE IF mcp_result.found /\ topic_metadata.needs_refresh THEN "refresh"
    ELSE "external_search"

\* the stale branch as it would be if it went back to step 1 after a refresh
AfterRefreshStep_Rechecks(refreshed) ==
    IF refreshed THEN "check_cache" ELSE "external_search"

\* the step that follows refresh_topic in the stale branch
AfterRefreshStep(refreshed) ==
    IF refreshed THEN "answer_refreshed" ELSE "external_search"

\* process_question_with_workflow is called
Begin ==
    /\ ~InProgress
    /\ \E question \in Questions :
           last' = [op |-> "workflow",
                    step |-> "check_cache",
                    question |-> question,
                    visited |-> <<"check_cache">>,
                    mcp_result |-> None,
                    topic_metadata |-> [cached |-> FALSE, needs_refresh |-> TRUE],
                    documents |-> <<>>,
                    ret |-> Pending]
    /\ UNCHANGED <<now, expiry_days, metadata, disk_meta, files>>

\* Step 1: check_mcp_for_docs and get_topic_metadata
CheckCacheStep ==
    /\ At("check_cache")
    /\ \E checked \in {CheckCache(Store, last.question)} :
           last' = Moved(BranchStep(checked.mcp_result, checked.topic_metadata),
                         checked.mcp_result, checked.topic_metadata, <<>>, Pending)
    /\ UNCHANGED <<now, expiry_days, metadata, disk_meta, files>>

\* Step 1, fresh branch: chain.run on the documents found
AnswerFromCacheStep ==
    /\ At("answer_from_cache")
    /\ \E llm_raises \in BOOLEAN :
           \E r \in {AnswerFromCache(Store, last.question, <<>>, last.mcp_result,
                                      last.topic_metadata, llm_raises)} :
               last' = Ended(r.context, r.ret)
    /\ UNCHANGED <<now, expiry_days, metadata, disk_meta, files>>

\* Step 2: refresh_topic
RefreshStep ==
    /\ At("refresh")
    /\ \E fetch \in [FetchedUrls -> WorkflowOutcomes] :
           \E r \in {RefreshTopic(Store, last.question, FALSE, fetch)} :
               /\ Becomes(r.st)
               /\ last' = Moved(AfterRefreshStep(r.ret.refreshed), last.mcp_result,
                                last.topic_metadata, <<>>, Pending)
    /\ UNCHANGED <<now, expiry_days>>

\* Step 2 after a refresh: the cache is queried again and chain.run called
AnswerRefreshedStep ==
    /\ At("answer_refreshed")
    /\ \E llm_raises \in BOOLEAN :
           \E r \in {Requery(Store, <<>>,
                              CheckMcpForDocs(metadata, files, last.question),
                              llm_raises)} :
               last' = Ended(r.context, r.ret)
    /\ UNCHANGED <<now, expiry_days, metadata, disk_meta, files>>

\* Step 3: determine_source_type, the arXiv search, and save_topic_to_mcp if
\* it gave documents
ExternalSearchStep ==
    /\ At("external_search")
    /\ \E arxiv \in ArxivOutcomes :
           IF /\ DetermineSourceType(last.question) = "arxiv"
              /\ arxiv.success
              /\ arxiv.documents # <<>>
           THEN /\ Becomes(SaveTopicToMcp(Store, TopicOfQuestion(Split(last.question)),
                                          arxiv.documents, "arxiv").st)
                /\ last' = Moved("answer_from_documents", last.mcp_result,
                                 last.topic_metadata, arxiv.documents, Pending)
           ELSE /\ UNCHANGED <<metadata, disk_meta, files>>
                /\ last' = Moved("direct_answer", last.mcp_result,
                                 last.topic_metadata, <<>>, Pending)
    /\ UNCHANGED <<now, expiry_days>>

\* Step 3, after the save: chain.run on the arXiv documents
AnswerFromDocumentsStep ==
    /\ At("answer_from_documents")
    /\ \E llm_raises \in BOOLEAN :
           \E r \in {Answered(Store, <<>>, last.documents, llm_raises,
                               ArxivResult(last.documents))} :
               last' = Ended(r.context, r.ret)
    /\ UNCHANGED <<now, expiry_days, metadata, disk_meta, files>>

\* Step 4: llm.invoke on the question alone
DirectAnswerStep ==
    /\ At("direct_answer")
    /\ \E llm_raises \in BOOLEAN :
           \E r \in {DirectAnswer(Store, last.question, <<>>, llm_raises)} :
               last' = Ended(r.context, r.ret)
    /\ UNCHANGED <<now, expiry_days, metadata, disk_meta, files>>

\* time passes between two requests
IdleTick == ~InProgress /\ Tick

\* the cache is filled between two requests, from the first source of the
\* topic the questions are about
IdleSeed ==
    /\ ~InProgress
    /\ \E outcome \in WorkflowOutcomes :
           \E r \in {FetchAndCacheDocs(Store, Ros, RosUrl1, "web", outcome)} :
               /\ Becomes(r.st)
               /\ last' = [op |-> "fetch_and_cache_docs", topic |-> Ros,
                           source_url |-> RosUrl1, source_type |-> "web",
                           outcome |-> outcome, ret |-> r.ret]
    /\ UNCHANGED <<now, expiry_days>>

\* the next step of the request in progress
RequestStep ==
    \/ CheckCacheStep
    \/ AnswerFromCacheStep
    \/ RefreshStep
    \/ AnswerRefreshedStep
    \/ ExternalSearchStep
    \/ AnswerFromDocumentsStep
    \/ DirectAnswerStep

\* questions answered one at a time over a cache filled between them
NextSteps ==
    \/ IdleTick
    \/ IdleSeed
    \/ Begin
    \/ RequestStep

\* every call the workflow makes returns or raises, so a request in progress
\* always takes its next step
SpecSteps == InitDefault /\ [][NextSteps]_vars /\ WF_vars(RequestStep)

\* ------------------------------------------------------------------------
\* Properties of the store
\* ------------------------------------------------------------------------

\* C1 -- no-clobber on a failed fetch: when fetch_and_cache_docs is called
\* for a (topic, source_url) that has a valid entry and the fetch yields zero
\* documents (it raises, returns no page, returns only pages too short to
\* keep, or the source type is one nothing is fetched for), the call returns
\* the empty list and the entry's metadata record, its document batch and
\* the persisted index are what they were before the call.
C1_NoClobberOnFailedFetch ==
    [][(/\ last'.op = "fetch_and_cache_docs"
        /\ \/ last'.source_type # "web"
           \/ last'.outcome.raises
           \/ \A i \in 1..Len(last'.outcome.pages) :
                  CharLen(CleanHtmlContent(last'.outcome.pages[i])) <= MinContentLen
        /\ LET cache_key == GenerateCacheKey(last'.topic, last'.source_url)
           IN  /\ cache_key \in DOMAIN metadata
               /\ ~IsExpired(metadata[cache_key].timestamp)
               /\ cache_key \in DOMAIN files)
       => LET cache_key == GenerateCacheKey(last'.topic, last'.source_url)
          IN  /\ last'.ret = <<>>
              /\ cache_key \in DOMAIN metadata'
              /\ metadata'[cache_key] = metadata[cache_key]
              /\ cache_key \in DOMAIN files'
              /\ files'[cache_key] = files[cache_key]
              /\ disk_meta' = disk_meta]_vars

\* a fetch that raised has just returned the empty list for a source whose
\* entry is in the index, unexpired, with its document file
C1_Witness ==
    /\ last.op = "fetch_and_cache_docs"
    /\ last.source_type = "web"
    /\ last.outcome.raises
    /\ last.ret = <<>>
    /\ LET cache_key == GenerateCacheKey(last.topic, last.source_url)
       IN  /\ cache_key \in DOMAIN metadata
           /\ ~IsExpired(metadata[cache_key].timestamp)
           /\ cache_key \in DOMAIN files
           /\ metadata[cache_key].document_count > 0

\* C2 -- round trip: right after cache_content(topic, docs, source_url,
\* source_type), get_cached_content(topic, source_url) returns a batch of
\* len(docs) documents whose content, title and source are those of docs,
\* in the same order.
C2_PutGetRoundTrip ==
    last.op = "cache_content" =>
        LET got == GetCachedContent(metadata, files, last.topic, last.source_url)
        IN  /\ got.found
            /\ Len(got.documents) = Len(last.documents)
            /\ \A i \in 1..Len(last.documents) :
                   /\ got.documents[i].content = last.documents[i].content
                   /\ got.documents[i].title = last.documents[i].title
                   /\ got.documents[i].source = last.documents[i].source

\* a batch of two documents has just been put, one of them with a field that
\* is not JSON text, and get returns two documents
C2_Witness ==
    /\ last.op = "cache_content"
    /\ Len(last.documents) = 2
    /\ \E i \in 1..2 : last.documents[i].published.kind = "date"
    /\ LET got == GetCachedContent(metadata, files, last.topic, last.source_url)
       IN  got.found /\ Len(got.documents) = 2

\* C3 -- idempotent overwrite: a cache_content that directly follows a
\* cache_content for the same (topic, source_url) with other documents adds
\* no key to the index or to the files, and the one entry and the one batch
\* under the key hold the second call's documents and document_count.
C3_IdempotentOverwrite ==
    [][(/\ last.op = "cache_content"
        /\ last'.op = "cache_content"
        /\ last'.topic = last.topic
        /\ last'.source_url = last.source_url
        /\ last'.documents # last.documents)
       => LET cache_key == GenerateCacheKey(last'.topic, last'.source_url)
              batch == files'[cache_key].documents
          IN  /\ last'.ret = cache_key
              /\ DOMAIN metadata' = DOMAIN metadata
              /\ DOMAIN files' = DOMAIN files
              /\ Cardinality({k \in DOMAIN metadata' :
                                 /\ metadata'[k].topic = last'.topic
                                 /\ metadata'[k].source_url = last'.source_url}) = 1
              /\ metadata'[cache_key].document_count = Len(last'.documents)
              /\ files'[cache_key].metadata = metadata'[cache_key]
              /\ Len(batch) = Len(last'.documents)
              /\ \A i \in 1..Len(batch) :
                     /\ batch[i].content = last'.documents[i].content
                     /\ batch[i].title = last'.documents[i].title]_vars

\* a batch of one document has just replaced a batch of two under the same key
C3_Witness ==
    /\ last.op = "cache_content"
    /\ last.replaced = 2
    /\ Len(last.documents) = 1
    /\ metadata[last.ret].document_count = 1
    /\ Len(files[last.ret].documents) = 1

\* C4 -- hard expiry: for every entry of the index, get_cached_content finds
\* nothing when now - timestamp exceeds expiry_days and, the document file
\* being there, finds the batch otherwise; get_cache_stats counts as expired
\* exactly the entries whose age exceeds expiry_days and as valid the others.
C4_HardExpiry ==
    LET Exceeds(k) == now - FromIsoFormat(metadata[k].timestamp) > expiry_days * UnitsPerDay
        stats == GetCacheStats(metadata)
    IN  /\ \A k \in DOMAIN metadata :
               LET got == GetCachedContent(metadata, files,
                                           metadata[k].topic, metadata[k].source_url)
               IN  /\ Exceeds(k) => ~got.found
                   /\ (~Exceeds(k) /\ k \in DOMAIN files) =>
                          got.found /\ got.documents = files[k].documents
        /\ stats.expired_entries = Cardinality({k \in DOMAIN metadata : Exceeds(k)})
        /\ stats.valid_entries = Cardinality({k \in DOMAIN metadata : ~Exceeds(k)})

\* the index holds an entry aged expiry_days + 1 days, which get does not
\* return, and one aged expiry_days - 1 days, which it returns
C4_Witness ==
    \E k1, k2 \in DOMAIN metadata :
        /\ now - FromIsoFormat(metadata[k1].timestamp) = (expiry_days + 1) * UnitsPerDay
        /\ now - FromIsoFormat(metadata[k2].timestamp) = (expiry_days - 1) * UnitsPerDay
        /\ ~GetCachedContent(metadata, files,
                             metadata[k1].topic, metadata[k1].source_url).found
        /\ GetCachedContent(metadata, files,
                            metadata[k2].topic, metadata[k2].source_url).found
        /\ GetCacheStats(metadata).expired_entries = 1
        /\ GetCacheStats(metadata).valid_entries = 1

\* C5 as stated -- staleness independence: every entry aged a day more than
\* the 15 days of the refresh threshold and not expired is returned by
\* get_cached_content, and get_topic_metadata of its topic reports
\* cached = true and needs_refresh = true.
C5_StaleEntryFlagged ==
    \A k \in DOMAIN metadata :
        (/\ AgeDays(metadata[k].timestamp) = RefreshThresholdDays + 1
         /\ ~IsExpired(metadata[k].timestamp)
         /\ k \in DOMAIN files)
        => /\ GetCachedContent(metadata, files,
                               metadata[k].topic, metadata[k].source_url).found
           /\ GetTopicMetadata(metadata, metadata[k].topic).cached
           /\ GetTopicMetadata(metadata, metadata[k].topic).needs_refresh

\* C5 amended -- every entry older than 15 whole days and not expired is
\* returned by get_cached_content.  get_topic_metadata of its topic reports
\* it (cached = true, its timestamp, needs_refresh = true) when the entry is
\* the first unexpired entry among the sources the static topic table lists
\* for the topic, and reports cached = false, needs_refresh = true when the
\* table lists no source for the topic.
C5_StaleFirstEntryFlagged ==
    \A k \in DOMAIN metadata :
        LET e == metadata[k]
            sources == FindRelevantDocs(e.topic)
            KeyAt(j) == GenerateCacheKey(sources[j][1], sources[j][2])
            IsFirstLive(i) ==
                /\ KeyAt(i) = k
                /\ \A j \in 1..(i - 1) :
                       KeyAt(j) \notin DOMAIN metadata
                       \/ IsExpired(metadata[KeyAt(j)].timestamp)
            meta == GetTopicMetadata(metadata, e.topic)
        IN  (/\ AgeDays(e.timestamp) > RefreshThresholdDays
             /\ ~IsExpired(e.timestamp)
             /\ k \in DOMAIN files)
            => /\ GetCachedContent(metadata, files, e.topic, e.source_url).found
               /\ (\E i \in 1..Len(sources) : IsFirstLive(i))
                      => /\ meta.cached
                         /\ meta.last_updated = e.timestamp
                         /\ meta.needs_refresh
               /\ sources = <<>> => ~meta.cached /\ meta.needs_refresh

\* the first source of the topic "ros" has an entry aged 16 days, which get
\* returns and get_topic_metadata flags
C5_Witness ==
    LET k == GenerateCacheKey(Ros, RosUrl1)
    IN  /\ k \in DOMAIN metadata
        /\ k \in DOMAIN files
        /\ now - FromIsoFormat(metadata[k].timestamp)
               = (RefreshThresholdDays + 1) * UnitsPerDay
        /\ ~IsExpired(metadata[k].timestamp)
        /\ GetCachedContent(metadata, files, Ros, RosUrl1).found
        /\ GetTopicMetadata(metadata, Ros).cached
        /\ GetTopicMetadata(metadata, Ros).needs_refresh

\* C6 -- needs_refresh is true whenever _is_expired is: for every
\* expiry_days the store is constructed with and every entry of the index
\* that _is_expired holds for, needs_refresh(topic) (with the default
\* max_age_days) and get_topic_metadata(topic)["needs_refresh"] are true for
\* the entry's topic.
C6_ExpiredImpliesNeedsRefresh ==
    \A k \in DOMAIN metadata :
        IsExpired(metadata[k].timestamp)
        => /\ NeedsRefresh(metadata, metadata[k].topic, DefaultMaxAgeDays)
           /\ GetTopicMetadata(metadata, metadata[k].topic).needs_refresh

\* an entry of the first "ros" source is expired in a store constructed with
\* expiry_days = 10, and needs_refresh("ros") is false
C6_Witness ==
    LET k == GenerateCacheKey(Ros, RosUrl1)
    IN  /\ expiry_days = 10
        /\ DOMAIN metadata = {k}
        /\ IsExpired(metadata[k].timestamp)
        /\ ~NeedsRefresh(metadata, Ros, DefaultMaxAgeDays)

\* ------------------------------------------------------------------------
\* Properties of the question workflow
\* In last.calls, calls[1] is the first check_mcp_for_docs with whether it
\* found documents, and calls[2] is get_topic_metadata with needs_refresh.
\* ------------------------------------------------------------------------

\* C7 -- uniform result shape: every result of process_question_with_workflow
\* has the keys answer, source, source_type, source_badge, documents_used,
\* sources and references.
C7_UniformResultShape ==
    last.op = "process_question" =>
        {"answer", "source", "source_type", "source_badge",
         "documents_used", "sources", "references"} \subseteq DOMAIN last.ret

\* the workflow has returned a result without the keys source and references
C7_Witness ==
    /\ last.op = "process_question"
    /\ last.ret.source_type = "error"
    /\ "source" \notin DOMAIN last.ret
    /\ "references" \notin DOMAIN last.ret

C9_StaleRefreshAnswers ==
    (/\ last.op = "process_question"
     /\ last.calls[1][2]
     /\ last.calls[2][2]
     /\ \A i \in 1..Len(last.calls) :
            last.calls[i][1] \in {"chain.run", "llm.invoke"}
                => last.calls[i][2] = <<"returns">>)
    => /\ last.calls[3][1] = "refresh_topic"
       /\ last.calls[3][2] =>
              /\ "source" \in DOMAIN last.ret
              /\ last.ret.source = "mcp_refreshed"
              /\ last.context # <<>>
       /\ ~last.calls[3][2] =>
              \E i \in 1..Len(last.calls) : last.calls[i][1] = "determine_source_type"

\* the topic was stale, refresh_topic reported refreshed, no LLM call was
\* made and the result is the error result
C9_Witness ==
    /\ last.op = "process_question"
    /\ last.calls[1][2]
    /\ last.calls[2][2]
    /\ last.calls[3][1] = "refresh_topic"
    /\ last.calls[3][2]
    /\ \A i \in 1..Len(last.calls) : last.calls[i][1] \notin {"chain.run", "llm.invoke"}
    /\ last.ret = ErrorResult

\* C10 -- fresh path: when the first check finds documents and the topic
\* does not need refresh, the only call that follows is the LLM call
\* (chain.run) on the documents found: nothing is fetched, refreshed or
\* searched on arXiv, the index, the persisted index and the document files
\* are unchanged by the request, and the result has source "mcp" if the LLM
\* call returns.
C10_FreshPathAnswersFromCache ==
    [][(/\ last'.op = "process_question"
        /\ last'.calls[1][2]
        /\ ~last'.calls[2][2])
       => /\ Len(last'.calls) = 3
          /\ last'.calls[3][1] = "chain.run"
          /\ last'.context = CheckMcpForDocs(metadata, files, last'.question).documents
          /\ last'.calls[3][2] = <<"returns">> =>
                 /\ "source" \in DOMAIN last'.ret
                 /\ last'.ret.source = "mcp"
                 /\ last'.ret.documents_used = Len(last'.context)
          /\ UNCHANGED <<metadata, disk_meta, files>>]_vars

\* a question has just been answered from fresh cached documents
C10_Witness ==
    /\ last.op = "process_question"
    /\ last.calls[1][2]
    /\ ~last.calls[2][2]
    /\ Len(last.calls) = 3
    /\ "source" \in DOMAIN last.ret
    /\ last.ret.source = "mcp"
    /\ last.ret.documents_used > 0

\* C11 -- refresh re-fetches the entry's own source url: when refresh_topic
\* is forced for the topic of an entry of the index, and the fetch of the
\* entry's source_url gives documents, get_cached_content for the entry's
\* (topic, source_url) then returns exactly those documents, and the index
\* records their number.  This holds whether or not the url is in the topic
\* table.
C11_RefreshReplacesBatch ==
    [][(/\ last'.op = "refresh_topic"
        /\ "fetch" \in DOMAIN last'
        /\ last'.force
        /\ FetchWebContent(last'.source_url, last'.fetch[last'.source_url]) # <<>>)
       => /\ GetCachedContent(metadata', files', last'.topic, last'.source_url).found
          /\ GetCachedContent(metadata', files', last'.topic, last'.source_url).documents
                 = JsonDocuments(FetchWebContent(last'.source_url,
                                                 last'.fetch[last'.source_url]))
          /\ metadata'[GenerateCacheKey(last'.topic, last'.source_url)].document_count
                 = Len(FetchWebContent(last'.source_url, last'.fetch[last'.source_url]))]_vars

\* refresh_topic was forced for the topic of the entry cached under a url
\* outside the topic table, the fetch of that url would have given a
\* document, and the call reported no refresh and left the two documents
\* cached before
C11_Witness ==
    /\ last.op = "refresh_topic"
    /\ "fetch" \in DOMAIN last
    /\ last.topic = Slam
    /\ last.source_url = UrlX
    /\ last.force
    /\ Len(FetchWebContent(UrlX, last.fetch[UrlX])) = 1
    /\ ~last.ret.refreshed
    /\ last.fetched = <<>>
    /\ GetCachedContent(metadata, files, Slam, UrlX).found
    /\ Len(GetCachedContent(metadata, files, Slam, UrlX).documents) = 2

\* C12 -- the workflow never raises: whatever the cache holds and whatever
\* the fetch, the arXiv search and the LLM do, process_question_with_workflow
\* returns a result with an answer, a source_type, a source_badge,
\* documents_used and sources; when an LLM call raised, the result has
\* source_type "error", source_badge "[error]" and the apology as answer.
C12_WorkflowNeverRaises ==
    last.op = "process_question" =>
        /\ {"answer", "source_type", "source_badge", "documents_used", "sources"}
               \subseteq DOMAIN last.ret
        /\ last.ret.answer \in {"response", "Sorry, I encountered an error"}
        /\ (\E i \in 1..Len(last.calls) :
                /\ last.calls[i][1] \in {"chain.run", "llm.invoke"}
                /\ last.calls[i][2] = <<"raises">>)
               => /\ last.ret.source_type = "error"
                  /\ last.ret.source_badge = <<"[error]">>
                  /\ last.ret.answer = "Sorry, I encountered an error"

\* the direct LLM call of step 4 raised, after a stale topic could not be
\* refreshed, and the error result was returned
C12_Witness ==
    /\ last.op = "process_question"
    /\ last.calls[3][1] = "refresh_topic"
    /\ ~last.calls[3][2]
    /\ last.calls[Len(last.calls)] = LlmCall("llm.invoke", TRUE)
    /\ last.ret.source_type = "error"
    /\ last.ret.source_badge = <<"[error]">>

\* C13 -- every question reaches a terminal state: a request never goes
\* through the same step twice; a request that ended has exactly one of the
\* outcomes answered from cache, answered from refreshed cache, answered
\* from arXiv, answered directly, or failed; and, every call of a
\* collaborator returning or raising, every request in progress ends.
C13_EveryQuestionTerminates ==
    /\ [](last.op = "workflow" =>
             /\ \A i, j \in 1..Len(last.visited) :
                    last.visited[i] = last.visited[j] => i = j
             /\ last.step = "answered" =>
                    /\ "source" \in DOMAIN last.ret
                    /\ last.ret.source \in {"mcp", "mcp_refreshed", "arxiv", "gemini"}
             /\ last.step = "failed" => last.ret = ErrorResult)
    /\ (InProgress ~> (last.op = "workflow" /\ last.step \in TerminalSteps))

\* a request ended answered from the refreshed cache, after the steps
\* check_cache, refresh and answer_refreshed
C13_Witness ==
    /\ last.op = "workflow"
    /\ last.visited = <<"check_cache", "refresh", "answer_refreshed", "answered">>
    /\ last.ret.source = "mcp_refreshed"

\* C14 -- a missing or unreadable document batch is a cache miss: for every
\* entry of the index that is not expired and whose document file is
\* missing or cannot be parsed, get_cached_content returns None.
C14_UnreadableBatchIsMiss ==
    \A k \in DOMAIN metadata :
        (/\ ~IsExpired(metadata[k].timestamp)
         /\ (k \notin DOMAIN files \/ ~Parses(files[k])))
        => GetCachedContent(metadata, files, metadata[k].topic,
                            metadata[k].source_url) = None

\* the document file of an unexpired entry has just been damaged
C14_Witness ==
    /\ last.op = "damage_file"
    /\ last.cache_key \in DOMAIN metadata
    /\ ~IsExpired(metadata[last.cache_key].timestamp)
    /\ ~Parses(files[last.cache_key])
    /\ GetCachedContent(metadata, files, Slam, UrlX) = None

\* the keys of the index m whose entry is expired
ExpiredKeys(m) == {k \in DOMAIN m : IsExpired(m[k].timestamp)}

\* C15 -- clear_expired_cache removes the index entry and the document
\* batch of exactly the expired entries, returns their number, leaves the
\* entry and the batch of every other key as they were, and get_cache_stats
\* right after it reports expired_entries = 0.
C15_ClearExpiredRemovesOnlyExpired ==
    [][last'.op = "clear_expired_cache" =>
        /\ DOMAIN metadata' = (DOMAIN metadata) \ ExpiredKeys(metadata)
        /\ \A k \in DOMAIN metadata' : metadata'[k] = metadata[k]
        /\ DOMAIN files' = (DOMAIN files) \ ExpiredKeys(metadata)
        /\ \A k \in DOMAIN files' : files'[k] = files[k]
        /\ last'.ret = Cardinality(ExpiredKeys(metadata))
        /\ (GetCacheStats(metadata).expired_entries = 0)'
        /\ disk_meta' = metadata']_vars

\* clear_expired_cache has removed an expired entry and kept a live one
C15_Witness ==
    /\ last.op = "clear_expired_cache"
    /\ last.ret > 0
    /\ \E k \in DOMAIN metadata : k \in DOMAIN files
    /\ GetCacheStats(metadata).expired_entries = 0

\* every get_cached_content of the (topic, source_url) pairs returns None
AllAbsent ==
    \A p \in KnownPairs : GetCachedContent(metadata, files, p[1], p[2]) = None

\* C16 -- clear_all_cache wipes everything: after it get_cache_stats reports
\* total_entries = 0, no document batch is left in the cache directory (the
\* batches without an index entry included), it returns the number of index
\* entries there were before the call, and every get_cached_content returns
\* None until the next cache_content.
C16_ClearAllWipesEverything ==
    [][/\ last'.op = "clear_all_cache" =>
            /\ (GetCacheStats(metadata).total_entries = 0)'
            /\ files' = EmptyDict
            /\ last'.ret = Cardinality(DOMAIN metadata)
            /\ AllAbsent'
       /\ (files = EmptyDict /\ AllAbsent /\ last'.op # "cache_content") =>
            (files' = EmptyDict /\ AllAbsent')]_vars

\* clear_all_cache has removed batches that had no index entry
C16_Witness ==
    /\ last.op = "clear_all_cache"
    /\ last.ret = 0
    /\ last.removed > 0
    /\ files = EmptyDict

\* C17 -- _generate_cache_key is a function of its arguments alone: every
\* call with the same topic and url returns the same key, in every store
\* instance, and two topics that differ by letter case and surrounding
\* whitespace only give the same key for the same url, the empty url
\* included.
C17_KeyDeterministicAndNormalized ==
    /\ \A c, d \in last.first_calls : c.key = d.key
    /\ \A c, d \in last.second_calls : c.key = d.key
    /\ (/\ last.first.base = last.second.base
        /\ last.first.source_url = last.second.source_url)
       => \A c \in last.first_calls, d \in last.second_calls : c.key = d.key

\* two topics of one base that differ in case and whitespace, with the empty
\* url, have been given keys in two store instances
C17_Witness ==
    /\ last.first.base = last.second.base
    /\ last.first.topic # last.second.topic
    /\ last.first.source_url = <<>>
    /\ last.second.source_url = <<>>
    /\ \E c, d \in last.first_calls : c.instance # d.instance
    /\ last.second_calls # {}
    /\ metadata # EmptyDict

\* C18 -- two (topic, source_url) pairs that differ after the topic is
\* lowered and trimmed are given different keys.
C18_DistinctPairsDistinctKeys ==
    (\/ last.first.base # last.second.base
     \/ last.first.source_url # last.second.source_url)
    => \A c \in last.first_calls, d \in last.second_calls : c.key # d.key

\* two pairs with different topics and different urls share a key
C18_Witness ==
    /\ last.first.base # last.second.base
    /\ last.first.source_url # last.second.source_url
    /\ \E c \in last.first_calls, d \in last.second_calls : c.key = d.key

\* C19 -- a metadata file that cannot be read or parsed when the store is
\* constructed leaves the store with an empty index: every
\* get_cached_content returns None and every freshness lookup reports the
\* topic as not cached.
C19_CorruptMetadataFailsOpen ==
    (last.op = "restart" /\ ~last.parsed) =>
        /\ metadata = EmptyDict
        /\ AllAbsent
        /\ \A topic \in {Ros, Slam} :
              /\ GetTopicMetadata(metadata, topic) = [cached |-> FALSE, needs_refresh |-> TRUE]
              /\ GetSourceStatus(metadata, topic) = [cached |-> FALSE]
              /\ NeedsRefresh(metadata, topic, DefaultMaxAgeDays)

\* the store has started over a damaged metadata file while the batch of a
\* ROS source it had cached is still in the cache directory
C19_Witness ==
    /\ last.op = "restart"
    /\ ~last.parsed
    /\ GenerateCacheKey(Ros, RosUrl1) \in DOMAIN files
    /\ GetTopicMetadata(metadata, Ros).cached = FALSE

\* C20 -- every entry of the index is stored under the key derived from its
\* own topic and source_url, and records that key as its cache_key.
C20_EntriesKeyedByOwnFields ==
    \A k \in DOMAIN metadata :
        /\ k = GenerateCacheKey(metadata[k].topic, metadata[k].source_url)
        /\ metadata[k].cache_key = k

\* save_topic_to_mcp has stored an entry whose source_url is not the url
\* its key was derived with
C20_Witness ==
    \E k \in DOMAIN metadata :
        /\ metadata[k].source_type = "arxiv"
        /\ metadata[k].cache_key = k
        /\ k = GenerateCacheKey(metadata[k].topic, <<>>)
        /\ k # GenerateCacheKey(metadata[k].topic, metadata[k].source_url)

\* the operations that can change the in-memory index
MutatingOps ==
    {"cache_content", "fetch_and_cache_docs", "refresh_topic",
     "clear_expired_cache", "clear_all_cache", "process_question"}

\* C21 -- the metadata index is flushed after every mutation: when an
\* operation that changes the in-memory index has returned (the deletion of
\* old entries inside refresh_topic included, whether or not the fetch that
\* follows succeeds), mcp_metadata.json equals the in-memory index.
C21_IndexFlushedAfterMutation ==
    last.op \in MutatingOps => disk_meta = metadata

\* refresh_topic has deleted an entry from the index, fetched nothing, and
\* returned with the entry still in mcp_metadata.json
C21_Witness ==
    /\ last.op = "refresh_topic"
    /\ ~last.ret.refreshed
    /\ \E k \in DOMAIN disk_meta : k \notin DOMAIN metadata
    /\ LoadMetadata(disk_meta) # metadata

\* C22 -- cache_content writes the document batch before it updates and
\* saves the index: at no point does mcp_metadata.json hold an entry whose
\* batch is not in the cache directory.
C22_BatchWrittenBeforeIndex ==
    \A k \in DOMAIN LoadMetadata(disk_meta) :
        /\ k \in DOMAIN files
        /\ files[k].metadata = disk_meta[k]

\* cache_content has returned "" after the write of the document file
\* failed, and mcp_metadata.json holds the entry of the batch
C22_Witness ==
    /\ last.op = "statements"
    /\ \E w \in Writers :
           /\ last.writers[w].kind = "put"
           /\ last.writers[w].pc = "done"
           /\ last.writers[w].ret = <<>>
    /\ \A w \in Writers : last.writers[w].kind # "refresh"
    /\ WriterKey \in DOMAIN LoadMetadata(disk_meta)
    /\ WriterKey \notin DOMAIN files

\* C23 -- half-written entries read as absent: after the process stopped
\* between the two writes of an entry, a document batch without an index
\* entry and an index entry without a document file are both reported as
\* not cached by get_cached_content, query_mcp, get_topic_metadata and
\* get_source_status.
C23_HalfWrittenReadsAbsent ==
    (/\ last.op = "statements"
     /\ last.after_crash
     /\ (WriterKey \notin DOMAIN metadata \/ WriterKey \notin DOMAIN files))
    => /\ GetCachedContent(metadata, files, Ros, RosUrl1) = None
       /\ \A question \in Questions : QueryMcp(metadata, files, question) = None
       /\ ~GetTopicMetadata(metadata, Ros).cached
       /\ ~GetSourceStatus(metadata, Ros).cached

\* the process has started again with an index entry whose document file
\* was never written: get_cached_content misses and get_topic_metadata
\* reports the topic as cached
C23_Witness ==
    /\ last.op = "statements"
    /\ last.after_crash
    /\ WriterKey \in DOMAIN metadata
    /\ WriterKey \notin DOMAIN files
    /\ GetCachedContent(metadata, files, Ros, RosUrl1) = None
    /\ GetTopicMetadata(metadata, Ros).cached
    /\ GetSourceStatus(metadata, Ros).cached

\* C24 -- one metadata index per process: after a mutation through any
\* MCPStore object of the process has completed, the in-memory index of
\* every object equals mcp_metadata.json.
C24_OneIndexPerProcess ==
    /\ metadata = disk_meta
    /\ last.summarizer = disk_meta

\* an entry cached through the object of main.py is in neither the
\* summarizer's index nor, after the summarizer saved its own index, in
\* mcp_metadata.json
C24_Witness ==
    /\ last.op = "summarizer.save_topic_to_mcp"
    /\ \E k \in DOMAIN metadata :
           /\ k \in DOMAIN files
           /\ k \notin DOMAIN last.summarizer
           /\ k \notin DOMAIN disk_meta

\* both callers have written their document file and returned the key
BothWritersDone ==
    /\ last.op = "statements"
    /\ \A w \in Writers : last.writers[w].pc = "done" /\ last.writers[w].ret = WriterKey

\* C25 -- last writer wins on a racing key: when two calls that write the
\* same key are interleaved statement by statement, after both have
\* finished there is one entry under the key, and its index record and its
\* document batch come from the same caller.
C25_LastWriterWins ==
    BothWritersDone =>
        /\ WriterKey \in DOMAIN metadata
        /\ WriterKey \in DOMAIN LoadMetadata(disk_meta)
        /\ WriterKey \in DOMAIN files
        /\ disk_meta[WriterKey] = metadata[WriterKey]
        /\ files[WriterKey].metadata = metadata[WriterKey]
        /\ Len(files[WriterKey].documents) = metadata[WriterKey].document_count

\* two calls of cache_content have finished; the index record says one
\* document and the document file holds the two documents of the other call
C25_Witness ==
    /\ BothWritersDone
    /\ \A w \in Writers : last.writers[w].kind = "put"
    /\ WriterKey \in DOMAIN metadata
    /\ WriterKey \in DOMAIN files
    /\ metadata[WriterKey].document_count = 1
    /\ disk_meta = metadata
    /\ Len(files[WriterKey].documents) = 2

\* C26 -- the save of the metadata table is atomic: when the process stops
\* while a caller is saving the table, mcp_metadata.json holds either the
\* complete table it held before the save or the complete new table, and
\* the index loaded at the restart is one of the two.
C26_AtomicMetadataSave ==
    [][(last.op = "statements" /\ ~last.after_crash /\ last'.after_crash) =>
        \A w \in Writers :
            last.writers[w].pc = "dump" =>
                /\ disk_meta' \in {last.writers[w].before, metadata}
                /\ metadata' \in {LoadMetadata(last.writers[w].before), metadata}]_vars

\* an entry was cached and saved; a later save was cut short, and the
\* process has started again with an empty index over the emptied file
C26_Witness ==
    /\ last.op = "statements"
    /\ last.after_crash
    /\ ~Parses(disk_meta)
    /\ metadata = EmptyDict
    /\ WriterKey \in DOMAIN files
    /\ files[WriterKey].metadata.cache_key = WriterKey

\* the keys of the entries save_topic_to_mcp wrote for the arXiv branch
ArxivKeys == {k \in DOMAIN metadata : metadata[k].source_type = "arxiv"}

\* the index without those entries
WithoutArxiv == [k \in (DOMAIN metadata) \ ArxivKeys |-> metadata[k]]

\* the keys the lookups of a question derive from the topic table
LookupKeys(question) ==
    {GenerateCacheKey(FindRelevantDocs(question)[i][1], FindRelevantDocs(question)[i][2]) :
        i \in 1..Len(FindRelevantDocs(question))}

FirstRosKey == GenerateCacheKey(Ros, RosUrl1)

\* C28 -- the soft-staleness threshold is exact: needs_refresh is true for
\* an entry if and only if now - timestamp, measured on the full duration,
\* is greater than the 15 days of the refresh threshold; an entry aged
\* between 15 and 16 days is flagged.
C28_ThresholdExact ==
    (FirstRosKey \in DOMAIN metadata /\ ~IsExpired(metadata[FirstRosKey].timestamp))
    => /\ GetTopicMetadata(metadata, Ros).needs_refresh
           <=> (now - FromIsoFormat(metadata[FirstRosKey].timestamp)
                    > RefreshThresholdDays * UnitsPerDay)
       /\ NeedsRefresh(metadata, Ros, DefaultMaxAgeDays)
           <=> (now - FromIsoFormat(metadata[FirstRosKey].timestamp)
                    > DefaultMaxAgeDays * UnitsPerDay)

\* the entry is 15 days and 12 hours old and neither lookup flags it
C28_Witness ==
    /\ FirstRosKey \in DOMAIN metadata
    /\ (now - FromIsoFormat(metadata[FirstRosKey].timestamp)) * 2
           = (2 * RefreshThresholdDays + 1) * UnitsPerDay
    /\ ~GetTopicMetadata(metadata, Ros).needs_refresh
    /\ GetTopicMetadata(metadata, Ros).age_days = RefreshThresholdDays
    /\ ~NeedsRefresh(metadata, Ros, DefaultMaxAgeDays)

\* the last request was answered on the fresh-cache path
AnsweredFromFreshCache ==
    /\ last.op = "process_question"
    /\ "source" \in DOMAIN last.ret
    /\ last.ret.source = "mcp"
    /\ ~last.ret.needs_refresh

\* C29 -- answers badged as fresh cache use only fresh documents: when a
\* question is answered on the fresh-cache path (source "mcp", needs_refresh
\* false), every document formatted into the LLM's context comes from an
\* entry that is not expired and not older than the 15 days of the refresh
\* threshold.
C29_FreshAnswerUsesFreshDocuments ==
    AnsweredFromFreshCache =>
        \A i \in 1..Len(last.context) :
            /\ GenerateCacheKey(Ros, last.context[i].url) \in DOMAIN metadata
            /\ ~IsExpired(metadata[GenerateCacheKey(Ros, last.context[i].url)].timestamp)
            /\ AgeDays(metadata[GenerateCacheKey(Ros, last.context[i].url)].timestamp)
                   <= RefreshThresholdDays

\* a question was answered as fresh from the entry of the first ROS source
\* together with a document of the second source, whose entry is older than
\* 15 days
C29_Witness ==
    /\ AnsweredFromFreshCache
    /\ GenerateCacheKey(Ros, RosUrl1) \in DOMAIN metadata
    /\ GenerateCacheKey(Ros, RosUrl2) \in DOMAIN metadata
    /\ AgeDays(metadata[GenerateCacheKey(Ros, RosUrl1)].timestamp) <= RefreshThresholdDays
    /\ \E i \in 1..Len(last.context) :
           /\ last.context[i].url = RosUrl2
           /\ AgeDays(metadata[GenerateCacheKey(Ros, RosUrl2)].timestamp)
                  > RefreshThresholdDays
           /\ ~IsExpired(metadata[GenerateCacheKey(Ros, RosUrl2)].timestamp)

\* C30 -- a successful refresh makes the topic fresh: whenever refresh_topic
\* returns refreshed = true, get_topic_metadata of the topic right after it
\* (no time passing, default expiry_days) reports cached = true and
\* needs_refresh = false, whatever entries the sources of the topic had
\* before and whichever source gave documents.
C30_RefreshMakesTopicFresh ==
    [][(last'.op = "refresh_topic" /\ last'.ret.refreshed) =>
        /\ GetTopicMetadata(metadata', last'.topic).cached
        /\ ~GetTopicMetadata(metadata', last'.topic).needs_refresh
        /\ last'.ret.new_metadata = GetTopicMetadata(metadata', last'.topic)
        /\ now' = now]_vars

\* refresh_topic was called without force when the topic was not fresh; the
\* fetch of the first source gave nothing and the index holds no entry for
\* it, the second source gave documents, and the topic is fresh
C30_Witness ==
    /\ last.op = "refresh_topic"
    /\ ~last.force
    /\ last.ret.refreshed
    /\ last.fetched = <<RosUrl1, RosUrl2>>
    /\ last.ret.source_url = RosUrl2
    /\ FirstRosKey \notin DOMAIN metadata
    /\ GetTopicMetadata(metadata, Ros).cached
    /\ ~GetTopicMetadata(metadata, Ros).needs_refresh

====
